---------------------------- MODULE Spec2Model ----------------------------
(***************************************************************************)
(* A model of python/tskit/combinatorics.py: the ranking, unranking and    *)
(* enumeration of unordered leaf-labelled trees (class RankTree), with the *)
(* combinatorial number system (class Combination) and the partition       *)
(* generator it is built on.                                               *)
(*                                                                         *)
(* A RankTree object is a record                                           *)
(*   [children, num_leaves, labels, _shape_rank, _label_rank].             *)
(* Python's None is the integer None == -1: labels and stored ranks are    *)
(* never negative (unrank rejects negative ranks before storing any).      *)
(* A call that may raise ValueError returns [raised |-> BOOLEAN, ...].     *)
(* Python lists are sequences; a Python index i is the TLA+ index i + 1.   *)
(***************************************************************************)
EXTENDS Integers, Sequences, FiniteSets, TLC

(***************************************************************************)
(* Bounds of the model.                                                    *)
(***************************************************************************)
\* largest num_leaves handed to unrank and to the enumerators
MaxN == 4
\* largest shape_rank handed to unrank (num_shapes(4) = 5, so 5.. is out of range)
MaxShapeRank == 6
\* largest label_rank handed to unrank (at most 12 labellings for 4 leaves)
MaxLabelRank == 13
\* largest number of leaves of an imported tree
MaxImportLeaves == 3
\* largest node id of a leaf of an imported tree
MaxImportId == 3
\* longest chain of unary internal nodes in an imported tree
MaxUnary == 1
\* largest number of elements handed to Combination.unrank
MaxElements == 4
\* largest n handed to Combination.with_replacement_unrank
MaxPool == 3
\* largest k handed to Combination.with_replacement_unrank
MaxK == 3
\* largest number of leaves of a tree whose rank calls are interleaved
MaxSharedLeaves == 3
\* largest number of rank calls made on one tree
MaxCalls == 2
\* largest integer whose partitions are generated
MaxPart == 7
\* how many times partitions(n) is called again
MaxAgain == 2
\* largest n of Combination.comb(n, k)
MaxCombN == 8
\* the while loop of with_replacement_unrank is followed for at most this
\* many iterations
MaxIter == 10
\* how far past the number of combinations the ranks handed to the two
\* unrankers go
MaxOver == 2

None == -1

(***************************************************************************)
(* Python built-ins used by the module.                                    *)
(***************************************************************************)
Min(a, b) == IF a <= b THEN a ELSE b

Max(a, b) == IF a >= b THEN a ELSE b

Range(s) == {s[i] : i \in 1..Len(s)}

\* list(...): the elements of a list comprehension or of an iterable, evaluated
\* once and kept as a list
list(s) == SubSeq(s, 1, Len(s))

\* list(range(n))
range(n) == list([i \in 1..n |-> i - 1])

\* s[i:] for a Python index i >= 0
SliceFrom(s, i) == IF i >= Len(s) THEN <<>> ELSE SubSeq(s, i + 1, Len(s))

\* sum(s)
SumSeq(s) ==
    LET acc[i \in 0..Len(s)] == IF i = 0 THEN 0 ELSE acc[i - 1] + s[i]
    IN  acc[Len(s)]

\* the concatenation of a list of lists
RECURSIVE Concat(_)
Concat(ss) == IF Len(ss) = 0 THEN <<>> ELSE Head(ss) \o Concat(Tail(ss))

\* elements.index(x)
Index(elements, x) ==
    (CHOOSE i \in 1..Len(elements) :
        /\ elements[i] = x
        /\ \A j \in 1..(i - 1) : elements[j] # x) - 1

\* heapq.merge of two sorted lists: the smaller head first, the first list on a tie
RECURSIVE Merge2(_, _)
Merge2(a, b) ==
    IF Len(a) = 0 THEN b
    ELSE IF Len(b) = 0 THEN a
    ELSE IF Head(b) < Head(a) THEN <<Head(b)>> \o Merge2(a, Tail(b))
    ELSE <<Head(a)>> \o Merge2(Tail(a), b)

\* list(heapq.merge(*lists))
RECURSIVE merge(_)

\* mutant: the lists are chained, not merged
merge_chained(lists) == Concat(lists)

merge(lists) ==
    IF Len(lists) = 0 THEN <<>> ELSE Merge2(Head(lists), merge(Tail(lists)))

\* itertools.combinations(pool, r), in the order itertools yields them
RECURSIVE combinations(_, _)
combinations(pool, r) ==
    IF r = 0 THEN << <<>> >>
    ELSE IF Len(pool) < r THEN <<>>
    ELSE LET with == combinations(Tail(pool), r - 1)
         IN  list([i \in 1..Len(with) |-> <<Head(pool)>> \o with[i]])
             \o combinations(Tail(pool), r)

\* itertools.combinations_with_replacement(pool, r)
RECURSIVE combinations_with_replacement(_, _)
combinations_with_replacement(pool, r) ==
    IF r = 0 THEN << <<>> >>
    ELSE IF Len(pool) = 0 THEN <<>>
    ELSE LET with == combinations_with_replacement(pool, r - 1)
         IN  list([i \in 1..Len(with) |-> <<Head(pool)>> \o with[i]])
             \o combinations_with_replacement(Tail(pool), r)

set_minus(arr, subset) == SelectSeq(arr, LAMBDA x : x \notin Range(subset))

(***************************************************************************)
(* group_by, group_partition                                               *)
(***************************************************************************)
\* group_by(values, equal), where equal(x, y) compares a key of x with the
\* same key of y: keys[i] is the key of values[i]
group_by(values, keys) ==
    LET loop[i \in 0..Len(values)] ==
            IF i = 0 THEN [groups |-> <<>>, curr_group |-> <<>>, curr_key |-> None]
            ELSE LET s == loop[i - 1]
                     x == values[i]
                 IN  IF Len(s.curr_group) = 0
                     THEN [groups |-> s.groups, curr_group |-> <<x>>,
                           curr_key |-> keys[i]]
                     ELSE IF keys[i] = s.curr_key
                     THEN [s EXCEPT !.curr_group = Append(s.curr_group, x)]
                     ELSE [groups |-> Append(s.groups, s.curr_group),
                           curr_group |-> <<x>>, curr_key |-> keys[i]]
        final == loop[Len(values)]
    IN  IF Len(final.curr_group) # 0
        THEN Append(final.groups, final.curr_group)
        ELSE final.groups

\* equal is lambda x, y: x == y
group_partition(part) == group_by(part, part)

(***************************************************************************)
(* rule_asc, partitions                                                    *)
(***************************************************************************)
\* the inner loop: while x <= y: a[k] = x; y -= x; k += 1
RECURSIVE rule_asc_inner(_, _, _, _)

\* mutant: the inner loop runs while x < y
rule_asc_inner_strict(a, k, x, y) ==
    IF x < y THEN rule_asc_inner([a EXCEPT ![k] = x], k + 1, x, y - x)
    ELSE [a |-> [a EXCEPT ![k] = x + y], k |-> k]

rule_asc_inner(a, k, x, y) ==
    IF x <= y THEN rule_asc_inner([a EXCEPT ![k] = x], k + 1, x, y - x)
    ELSE [a |-> [a EXCEPT ![k] = x + y], k |-> k]

\* the outer loop: while k != 0, one yield of a[:k + 1] per iteration
RECURSIVE rule_asc_outer(_, _)
rule_asc_outer(a, k) ==
    IF k = 0 THEN <<>>
    ELSE LET r == rule_asc_inner(a, k - 1, a[k - 1] + 1, a[k] - 1)
         IN  << list([i \in 1..(r.k + 1) |-> r.a[i - 1]]) >> \o rule_asc_outer(r.a, r.k)

rule_asc(n) == rule_asc_outer([i \in 0..n |-> IF i = 1 THEN n ELSE 0], 1)

\* itertools.takewhile(lambda a: len(a) > 1, seq)
RECURSIVE takewhile_longer_than_one(_)

\* mutant: the predicate is len(a) > 2
takewhile_longer_than_two(seq) ==
    IF Len(seq) = 0 \/ ~(Len(Head(seq)) > 2) THEN <<>>
    ELSE <<Head(seq)>> \o takewhile_longer_than_one(Tail(seq))

takewhile_longer_than_one(seq) ==
    IF Len(seq) = 0 \/ ~(Len(Head(seq)) > 1) THEN <<>>
    ELSE <<Head(seq)>> \o takewhile_longer_than_one(Tail(seq))

partitions(n) ==
    IF n > 0 THEN takewhile_longer_than_one(rule_asc(n)) ELSE <<>>

(***************************************************************************)
(* class Combination                                                       *)
(***************************************************************************)
\* mutant: res is divided by i before it is multiplied
comb_divided_first(n, k) ==
    LET kk == Min(k, n - k)
        res[i \in 0..Max(kk, 0)] ==
            IF i = 0 THEN 1 ELSE (res[i - 1] \div i) * (n - kk + i)
    IN  res[Max(kk, 0)]

comb(n, k) ==
    LET kk == Min(k, n - k)
        res[i \in 0..Max(kk, 0)] ==
            IF i = 0 THEN 1 ELSE (res[i - 1] * (n - kk + i)) \div i
    IN  res[Max(kk, 0)]

\* the values of res after res *= n - k + i, for i = 1..k, in Combination.comb
comb_products(n, k) ==
    LET kk == Min(k, n - k)
        product_at[i \in 1..Max(kk, 1)] ==
            (IF i = 1 THEN 1 ELSE product_at[i - 1] \div (i - 1)) * (n - kk + i)
    IN  list([i \in 1..Max(kk, 0) |-> product_at[i]])

comb_with_replacement(n, k) == comb(n + k - 1, k)

RECURSIVE from_range_rank(_, _)

\* mutant: the combinations that start after 0 are not counted from comb(n - 1, k - 1)
from_range_rank_no_first_rank(combination, n) ==
    LET k == Len(combination)
    IN  IF k = 0 \/ k = n THEN 0
        ELSE LET j == combination[1]
                 shifted == list([i \in 1..k |-> combination[i] - 1])
             IN  IF j = 0 THEN from_range_rank(Tail(shifted), n - 1)
                 ELSE from_range_rank(shifted, n - 1)

from_range_rank(combination, n) ==
    LET k == Len(combination)
    IN  IF k = 0 \/ k = n THEN 0
        ELSE LET j == combination[1]
                 shifted == list([i \in 1..k |-> combination[i] - 1])
             IN  IF j = 0 THEN from_range_rank(Tail(shifted), n - 1)
                 ELSE comb(n - 1, k - 1) + from_range_rank(shifted, n - 1)

Combination_rank(combination, elements) ==
    from_range_rank(list([i \in 1..Len(combination) |-> Index(elements, combination[i])]),
                    Len(elements))

RECURSIVE Combination_unrank(_, _, _)

\* mutant: the first element is kept when rank <= n_rest_combs
Combination_unrank_off_by_one(rank, elements, k) ==
    LET n == Len(elements)
    IN  IF k = 0 THEN [raised |-> FALSE, val |-> <<>>]
        ELSE IF Len(elements) = 0 THEN [raised |-> TRUE, val |-> <<>>]
        ELSE LET n_rest_combs == comb(n - 1, k - 1)
             IN  IF rank <= n_rest_combs
                 THEN LET r == Combination_unrank(rank, Tail(elements), k - 1)
                      IN  IF r.raised THEN r
                          ELSE [raised |-> FALSE,
                                val |-> <<Head(elements)>> \o r.val]
                 ELSE Combination_unrank(rank - n_rest_combs, Tail(elements), k)

\* Combination.unrank: [raised, val]
Combination_unrank(rank, elements, k) ==
    LET n == Len(elements)
    IN  IF k = 0 THEN [raised |-> FALSE, val |-> <<>>]
        ELSE IF Len(elements) = 0 THEN [raised |-> TRUE, val |-> <<>>]
        ELSE LET n_rest_combs == comb(n - 1, k - 1)
             IN  IF rank < n_rest_combs
                 THEN LET r == Combination_unrank(rank, Tail(elements), k - 1)
                      IN  IF r.raised THEN r
                          ELSE [raised |-> FALSE,
                                val |-> <<Head(elements)>> \o r.val]
                 ELSE Combination_unrank(rank - n_rest_combs, Tail(elements), k)

RECURSIVE with_replacement_rank(_, _)
with_replacement_rank(combination, n) ==
    LET k == Len(combination)
    IN  IF k = 0 THEN 0
        ELSE LET j == combination[1]
             IN  IF k = 1 THEN j
                 ELSE IF j = 0 THEN with_replacement_rank(Tail(combination), n)
                 ELSE LET rest == list([i \in 1..(k - 1) |-> combination[i + 1] - j])
                          preceding[i \in 0..j] ==
                              IF i = 0 THEN 0
                              ELSE preceding[i - 1]
                                   + comb_with_replacement(n - (i - 1), k - 1)
                      IN  preceding[j] + with_replacement_rank(rest, n - j)

\* the loop of with_replacement_unrank: while rank >= preceding
RECURSIVE with_replacement_unrank_while(_, _, _, _, _)
with_replacement_unrank_while(rank, i, preceding, n, k) ==
    IF rank >= preceding
    THEN with_replacement_unrank_while(rank - preceding, i + 1,
             comb_with_replacement(n - (i + 1), k - 1), n, k)
    ELSE [rank |-> rank, i |-> i]

RECURSIVE with_replacement_unrank(_, _, _)
with_replacement_unrank(rank, n, k) ==
    IF k = 0 THEN <<>>
    ELSE LET w == with_replacement_unrank_while(rank, 0,
                      comb_with_replacement(n, k - 1), n, k)
             rest == with_replacement_unrank(w.rank, n - w.i, k - 1)
         IN  <<w.i>> \o list([x \in 1..Len(rest) |-> rest[x] + w.i])

(***************************************************************************)
(* class RankTree: construction and the accessors                          *)
(***************************************************************************)
\* RankTree.__init__(children, label)
RankTree(children, label) ==
    [children    |-> children,
     num_leaves  |-> IF Len(children) = 0 THEN 1
                     ELSE SumSeq(list([i \in 1..Len(children) |-> children[i].num_leaves])),
     labels      |-> IF Len(children) = 0 THEN <<label>>
                     ELSE merge(list([i \in 1..Len(children) |-> children[i].labels])),
     _shape_rank |-> None,
     _label_rank |-> None]

is_leaf(t) == Len(t.children) = 0

min_label(t) == t.labels[1]

leaf_partition(t) == list([i \in 1..Len(t.children) |-> t.children[i].num_leaves])

(***************************************************************************)
(* num_shapes, num_tree_pairings                                           *)
(***************************************************************************)
RECURSIVE num_shapes(_)
RECURSIVE num_tree_pairings(_)

\* sum(num_tree_pairings(part) for part in partitions(n))
sum_num_tree_pairings(parts) ==
    SumSeq(list([i \in 1..Len(parts) |-> num_tree_pairings(parts[i])]))

\* @lru_cache() only saves recomputation: the value is that of the body
num_shapes(n) ==
    IF n <= 1 THEN n ELSE sum_num_tree_pairings(partitions(n))

\* for g in group_partition(part): total *= ...; i is the TLA+ index of g
RECURSIVE num_tree_pairings_loop(_, _, _)
num_tree_pairings_loop(grouped, i, total) ==
    IF i > Len(grouped) THEN total
    ELSE num_tree_pairings_loop(grouped, i + 1,
             total * comb_with_replacement(num_shapes(grouped[i][1]),
                                           Len(grouped[i])))

num_tree_pairings(part) == num_tree_pairings_loop(group_partition(part), 1, 1)

(***************************************************************************)
(* Shape ranking                                                           *)
(***************************************************************************)
RECURSIVE shape_rank(_)
RECURSIVE compute_shape_rank(_)

\* the value shape_rank() returns: the memo when set, the computation otherwise
shape_rank(t) ==
    IF t._shape_rank = None THEN compute_shape_rank(t) ELSE t._shape_rank

group_children_by_num_leaves(t) ==
    group_by(t.children, list([i \in 1..Len(t.children) |-> t.children[i].num_leaves]))

group_children_by_shape(t) ==
    group_by(t.children,
             list([i \in 1..Len(t.children) |->
                 <<t.children[i].num_leaves, shape_rank(t.children[i])>>]))

\* for prev_part in partitions(...): if prev_part == part: break; total += ...
RECURSIVE compute_shape_rank_before(_, _, _, _)
compute_shape_rank_before(parts, part, i, total) ==
    IF i > Len(parts) \/ parts[i] = part THEN total
    ELSE compute_shape_rank_before(parts, part, i + 1,
             total + num_tree_pairings(parts[i]))

\* [c.shape_rank() for c in g]
child_shape_ranks(g) == list([j \in 1..Len(g) |-> shape_rank(g[j])])

\* for g in child_groups: ...; total += g_rank * total_rest
RECURSIVE compute_shape_rank_groups(_, _, _, _, _)
compute_shape_rank_groups(child_groups, part, i, next_child_idx, total) ==
    IF i > Len(child_groups) THEN total
    ELSE LET g == child_groups[i]
             next == next_child_idx + Len(g)
             k == g[1].num_leaves
             add(g_rank, total_rest) == total + g_rank * total_rest
         IN  compute_shape_rank_groups(child_groups, part, i + 1, next,
                 add(with_replacement_rank(child_shape_ranks(g), num_shapes(k)),
                     num_tree_pairings(SliceFrom(part, next))))

compute_shape_rank(t) ==
    compute_shape_rank_groups(
        group_children_by_num_leaves(t), leaf_partition(t), 1, 0,
        compute_shape_rank_before(partitions(t.num_leaves), leaf_partition(t), 1, 0))


(***************************************************************************)
(* Label counting and ranking                                              *)
(***************************************************************************)
RECURSIVE RankTree_num_labellings(_)
RECURSIVE num_list_of_group_labellings(_)
RECURSIVE num_group_labellings(_)

\* mutant: every tree of the group chooses all of its k labels freely
num_assignments_in_group_free(g) ==
    LET n0 == SumSeq(list([i \in 1..Len(g) |-> g[i].num_leaves]))
        loop[i \in 0..Len(g)] ==
            IF i = 0 THEN [total |-> 1, n |-> n0]
            ELSE LET s == loop[i - 1]
                     k == g[i].num_leaves
                 IN  [total |-> s.total * comb(s.n, k), n |-> s.n - k]
    IN  loop[Len(g)].total

num_assignments_in_group(g) ==
    LET n0 == SumSeq(list([i \in 1..Len(g) |-> g[i].num_leaves]))
        loop[i \in 0..Len(g)] ==
            IF i = 0 THEN [total |-> 1, n |-> n0]
            ELSE LET s == loop[i - 1]
                     k == g[i].num_leaves
                 IN  [total |-> s.total * comb(s.n - 1, k - 1), n |-> s.n - k]
    IN  loop[Len(g)].total

\* RankTree.num_labellings(self)
RankTree_num_labellings(t) ==
    num_list_of_group_labellings(group_children_by_shape(t))

\* for g in groups: total *= num_label_choices * num_group_labellings(g)
RECURSIVE num_list_of_group_labellings_loop(_, _, _, _)
num_list_of_group_labellings_loop(groups, i, remaining_leaves, total) ==
    IF i > Len(groups) THEN total
    ELSE LET g == groups[i]
             k == g[1].num_leaves
             x == Len(g)
             num_label_choices == comb(remaining_leaves, x * k)
         IN  num_list_of_group_labellings_loop(groups, i + 1,
                 remaining_leaves - x * k,
                 total * (num_label_choices * num_group_labellings(g)))

num_list_of_group_labellings(groups) ==
    num_list_of_group_labellings_loop(groups, 1,
        SumSeq(list([i \in 1..Len(groups) |-> Len(groups[i]) * groups[i][1].num_leaves])),
        1)

\* num_assignments_in_group(g) * num_tree_labelings
num_group_labellings(g) ==
    num_assignments_in_group(g) * (RankTree_num_labellings(g[1]) ^ Len(g))

RECURSIVE label_rank(_)
RECURSIVE compute_label_rank(_)
RECURSIVE group_rank(_)

\* the value label_rank() returns
label_rank(t) ==
    IF t._label_rank = None THEN compute_label_rank(t) ELSE t._label_rank

\* list(heapq.merge(*(t.labels for t in g)))
group_labels(g) == merge(list([j \in 1..Len(g) |-> g[j].labels]))

\* for j in range(curr_trees - 1): num_rest_combs *= ...
group_rank_num_rest_combs(curr_trees, remaining_leaves, k) ==
    LET num_rest_combs[j \in 0..(curr_trees - 1)] ==
            IF j = 0 THEN 1
            ELSE num_rest_combs[j - 1]
                 * comb(remaining_leaves - (j - 1) * k - 1, k - 1)
    IN  num_rest_combs[curr_trees - 1]

\* for i, t in enumerate(g): ...; the Python index of t is i - 1
RECURSIVE group_rank_loop(_, _, _, _, _)
group_rank_loop(g, i, y, all_labels, rank) ==
    IF i > Len(g) THEN rank
    ELSE LET t == g[i]
             k == g[1].num_leaves
             n == Len(g) * k
             u_labels == t.labels
             curr_trees == Len(g) - (i - 1)
             comb_rank == Combination_rank(u_labels, all_labels)
             remaining_leaves == n - i * k
             num_rest_combs ==
                 group_rank_num_rest_combs(curr_trees, remaining_leaves, k)
             preceding_combs == comb_rank * num_rest_combs * (y ^ curr_trees)
             curr_comb(t_label_rank) ==
                 t_label_rank * num_rest_combs * (y ^ (curr_trees - 1))
         IN  group_rank_loop(g, i + 1, y, set_minus(all_labels, u_labels),
                 rank + preceding_combs + curr_comb(label_rank(t)))

group_rank(g) ==
    group_rank_loop(g, 1, RankTree_num_labellings(g[1]), group_labels(g), 0)

\* for i, g in enumerate(child_groups): ...; the Python index of g is i - 1
RECURSIVE compute_label_rank_loop(_, _, _, _)
compute_label_rank_loop(child_groups, i, all_labels, total) ==
    IF i > Len(child_groups) THEN total
    ELSE LET g == child_groups[i]
             rest_groups == SliceFrom(child_groups, i)
             g_labels == group_labels(g)
             comb_rank == Combination_rank(g_labels, all_labels)
             add(num_rest_labellings, num_g_labellings, group_rank_g) ==
                 LET preceding_comb ==
                         comb_rank * num_g_labellings * num_rest_labellings
                     rank_from_g == group_rank_g * num_rest_labellings
                 IN  total + preceding_comb + rank_from_g
         IN  compute_label_rank_loop(child_groups, i + 1,
                 set_minus(all_labels, g_labels),
                 add(num_list_of_group_labellings(rest_groups),
                     num_group_labellings(g), group_rank(g)))

compute_label_rank(t) ==
    compute_label_rank_loop(group_children_by_shape(t), 1, t.labels, 0)

\* RankTree.rank(): the pair it returns
RankTree_rank(t) == <<shape_rank(t), label_rank(t)>>

(***************************************************************************)
(* Shape unranking                                                         *)
(***************************************************************************)
\* for prev_part in partitions(n): ... break: [rank, part, broke], broke is
\* FALSE when the loop ran to its end (the else clause of the for)
RECURSIVE children_shape_ranks_find(_, _, _)
children_shape_ranks_find(parts, i, rank) ==
    IF i > Len(parts) THEN [rank |-> rank, part |-> <<>>, broke |-> FALSE]
    ELSE LET step(num_trees_with_part) ==
                 IF rank < num_trees_with_part
                 THEN [rank |-> rank, part |-> parts[i], broke |-> TRUE]
                 ELSE children_shape_ranks_find(parts, i + 1,
                                                rank - num_trees_with_part)
         IN  step(num_tree_pairings(parts[i]))

\* for g in grouped_part: ...: the child_ranks collected
RECURSIVE children_shape_ranks_groups(_, _, _, _, _, _)
children_shape_ranks_groups(grouped_part, part, i, next_child, rank, child_ranks) ==
    IF i > Len(grouped_part) THEN child_ranks
    ELSE LET g == grouped_part[i]
             next == next_child + Len(g)
             k == g[1]
             rest_children == SliceFrom(part, next)
             step(rest_num_pairings, S_k) ==
                 LET shapes_comb_rank == rank \div rest_num_pairings
                     g_shape_ranks ==
                         with_replacement_unrank(shapes_comb_rank, S_k, Len(g))
                 IN  children_shape_ranks_groups(grouped_part, part, i + 1, next,
                         rank % rest_num_pairings, child_ranks \o g_shape_ranks)
         IN  step(num_tree_pairings(rest_children), num_shapes(k))

\* the rest of children_shape_ranks once the first loop is over
children_shape_ranks_found(found, n) ==
    IF ~found.broke /\ n # 1
    THEN [raised |-> TRUE, part |-> <<>>, child_ranks |-> <<>>]
    ELSE [raised |-> FALSE, part |-> found.part,
          child_ranks |->
              children_shape_ranks_groups(group_partition(found.part), found.part,
                                          1, 0, found.rank, <<>>)]

\* children_shape_ranks: [raised, part, child_ranks]
children_shape_ranks(rank, n) ==
    children_shape_ranks_found(children_shape_ranks_find(partitions(n), 1, rank), n)

RECURSIVE shape_unrank(_, _)

\* [RankTree.shape_unrank(rk, k) for rk, k in zip(child_shape_ranks, part)]
shape_unrank_children(c) ==
    list([i \in 1..Min(Len(c.child_ranks), Len(c.part)) |->
             shape_unrank(c.child_ranks[i], c.part[i])])

\* t = RankTree(children=children); t._shape_rank = shape_rank
shape_unrank_tree(rank, sub) ==
    IF \E i \in 1..Len(sub) : sub[i].raised
    THEN [raised |-> TRUE, val |-> <<>>]
    ELSE [raised |-> FALSE,
          val |-> [RankTree(list([i \in 1..Len(sub) |-> sub[i].val]), None)
                      EXCEPT !._shape_rank = rank]]

shape_unrank_of(rank, c) ==
    IF c.raised THEN [raised |-> TRUE, val |-> <<>>]
    ELSE shape_unrank_tree(rank, shape_unrank_children(c))

\* RankTree.shape_unrank: [raised, val]
shape_unrank(rank, n) == shape_unrank_of(rank, children_shape_ranks(rank, n))

\* num_labellings(shape_rk, n), for a shape rank shape_unrank accepts
num_labellings(shape_rk, n) ==
    RankTree_num_labellings(shape_unrank(shape_rk, n).val)

(***************************************************************************)
(* Label unranking                                                         *)
(***************************************************************************)
\* for i, rank_tree in enumerate(child_group): ...
RECURSIVE group_label_ranks_loop(_, _, _, _, _, _)
group_label_ranks_loop(child_group, i, rank, labels, child_labels, child_label_ranks) ==
    IF i > Len(child_group)
    THEN [raised |-> FALSE, child_labels |-> child_labels,
          child_label_ranks |-> child_label_ranks]
    ELSE LET rank_tree == child_group[i]
             k == rank_tree.num_leaves
             rest_trees == SliceFrom(child_group, i)
             assigned(num_rest_labellings, t_rank, u) ==
                 LET t_labels == <<labels[1]>> \o u.val
                 IN  IF u.raised
                     THEN [raised |-> TRUE, child_labels |-> <<>>,
                           child_label_ranks |-> <<>>]
                     ELSE group_label_ranks_loop(child_group, i + 1,
                              rank % num_rest_labellings,
                              set_minus(labels, t_labels),
                              Append(child_labels, t_labels),
                              Append(child_label_ranks, t_rank))
             ranked(num_rest_labellings, num_labellings_per_label_comb) ==
                 assigned(num_rest_labellings,
                     (rank % num_labellings_per_label_comb) \div num_rest_labellings,
                     Combination_unrank(rank \div num_labellings_per_label_comb,
                                        Tail(labels), k - 1))
             counted(num_t_labellings, num_rest_labellings) ==
                 ranked(num_rest_labellings, num_t_labellings * num_rest_labellings)
             step(num_t_labellings, num_rest_assignments) ==
                 counted(num_t_labellings,
                     num_rest_assignments * (num_t_labellings ^ Len(rest_trees)))
         IN  step(RankTree_num_labellings(rank_tree),
                  num_assignments_in_group(rest_trees))

\* group_label_ranks: [raised, child_labels, child_label_ranks]
group_label_ranks(rank, child_group, labels) ==
    group_label_ranks_loop(child_group, 1, rank, labels, <<>>, <<>>)

\* the rest of an iteration of children_label_ranks once g_labels is known
RECURSIVE children_label_ranks_loop(_, _, _, _, _, _)
children_label_ranks_group(child_groups, i, rank, labels, child_labels, child_label_ranks, gl, g_labels) ==
    IF gl.raised
    THEN [raised |-> TRUE, child_labels |-> <<>>, child_label_ranks |-> <<>>]
    ELSE children_label_ranks_loop(child_groups, i + 1, rank,
             set_minus(labels, g_labels),
             child_labels \o gl.child_labels,
             child_label_ranks \o gl.child_label_ranks)

\* for i, g in enumerate(child_groups): ...
children_label_ranks_loop(child_groups, i, rank, labels, child_labels, child_label_ranks) ==
    IF i > Len(child_groups)
    THEN [raised |-> FALSE, child_labels |-> child_labels,
          child_label_ranks |-> child_label_ranks]
    ELSE LET g == child_groups[i]
             k == g[1].num_leaves
             g_num_leaves == k * Len(g)
             rest_groups == SliceFrom(child_groups, i)
             labelled(num_rest_labellings, g_rank, u) ==
                 IF u.raised
                 THEN [raised |-> TRUE, child_labels |-> <<>>,
                       child_label_ranks |-> <<>>]
                 ELSE children_label_ranks_group(child_groups, i,
                          rank % num_rest_labellings, labels, child_labels,
                          child_label_ranks,
                          group_label_ranks(g_rank, g, u.val), u.val)
             ranked(num_rest_labellings, num_labellings_per_label_comb) ==
                 labelled(num_rest_labellings,
                     (rank % num_labellings_per_label_comb) \div num_rest_labellings,
                     Combination_unrank(rank \div num_labellings_per_label_comb,
                                        labels, g_num_leaves))
             step(num_g_labellings, num_rest_labellings) ==
                 ranked(num_rest_labellings, num_g_labellings * num_rest_labellings)
         IN  step(num_group_labellings(g),
                  num_list_of_group_labellings(rest_groups))

\* children_label_ranks: [raised, child_labels, child_label_ranks]
children_label_ranks(child_groups, rank, labels) ==
    children_label_ranks_loop(child_groups, 1, rank, labels, <<>>, <<>>)

RECURSIVE label_unrank(_, _, _)

\* [RankTree.label_unrank(c, c_rank, c_labels) for c, c_rank, c_labels in
\*  zip(children, child_label_ranks, child_labels)]: zip stops at the shortest
label_unrank_children(children, c) ==
    list([i \in 1..Min(Len(children),
                       Min(Len(c.child_label_ranks), Len(c.child_labels))) |->
             label_unrank(children[i], c.child_label_ranks[i], c.child_labels[i])])

\* mutant: the two ranks are stored in each other's field
label_unrank_tree_ranks_swapped(self_shape_rank, rank, sub) ==
    IF \E i \in 1..Len(sub) : sub[i].raised
    THEN [raised |-> TRUE, val |-> <<>>]
    ELSE [raised |-> FALSE,
          val |-> [RankTree(list([i \in 1..Len(sub) |-> sub[i].val]), None)
                      EXCEPT !._shape_rank = rank,
                             !._label_rank = self_shape_rank]]

\* t = RankTree(children=labelled_children) and its two stored ranks
label_unrank_tree(self_shape_rank, rank, sub) ==
    IF \E i \in 1..Len(sub) : sub[i].raised
    THEN [raised |-> TRUE, val |-> <<>>]
    ELSE [raised |-> FALSE,
          val |-> [RankTree(list([i \in 1..Len(sub) |-> sub[i].val]), None)
                      EXCEPT !._shape_rank = self_shape_rank,
                             !._label_rank = rank]]

label_unrank_of(self, rank, c) ==
    IF c.raised THEN [raised |-> TRUE, val |-> <<>>]
    ELSE label_unrank_tree(shape_rank(self), rank,
                           label_unrank_children(self.children, c))

\* mutant: a leaf accepts any label rank
label_unrank_unchecked_leaf(self, rank, labels) ==
    IF is_leaf(self)
    THEN [raised |-> FALSE, val |-> RankTree(<<>>, labels[1])]
    ELSE label_unrank_of(self, rank,
             children_label_ranks(group_children_by_shape(self), rank, labels))

\* RankTree.label_unrank(self, label_rank, labels): [raised, val]
label_unrank(self, rank, labels) ==
    IF is_leaf(self)
    THEN IF rank # 0 THEN [raised |-> TRUE, val |-> <<>>]
         ELSE [raised |-> FALSE, val |-> RankTree(<<>>, labels[1])]
    ELSE label_unrank_of(self, rank,
             children_label_ranks(group_children_by_shape(self), rank, labels))

\* label_unrank(label_rank) with labels=None: labels = list(range(self.num_leaves))
label_unrank_default(self, rank) == label_unrank(self, rank, range(self.num_leaves))

\* return unlabelled.label_unrank(label_rank)
unrank_labelled(labelled) ==
    [raised |-> labelled.raised, val |-> labelled.val,
     decoded |-> <<"shape_unrank", "label_unrank">>]

\* unlabelled = RankTree.shape_unrank(shape_rank, num_leaves) and what follows
unrank_unlabelled(unlabelled, l_rank) ==
    IF unlabelled.raised
    THEN [raised |-> TRUE, val |-> <<>>, decoded |-> <<"shape_unrank">>]
    ELSE unrank_labelled(label_unrank_default(unlabelled.val, l_rank))

\* mutant: the pair is unpacked as (label_rank, shape_rank)
unrank_swapped(rank, n) ==
    LET s_rank == rank[2]
        l_rank == rank[1]
    IN  IF s_rank < 0 \/ l_rank < 0
        THEN [raised |-> TRUE, val |-> <<>>, decoded |-> <<>>]
        ELSE unrank_unlabelled(shape_unrank(s_rank, n), l_rank)

\* mutant: the ranks are rejected only when both are negative
unrank_both_negative(rank, n) ==
    LET s_rank == rank[1]
        l_rank == rank[2]
    IN  IF s_rank < 0 /\ l_rank < 0
        THEN [raised |-> TRUE, val |-> <<>>, decoded |-> <<>>]
        ELSE unrank_unlabelled(shape_unrank(s_rank, n), l_rank)

\* RankTree.unrank(rank, num_leaves): [raised, val, decoded]; decoded lists the
\* decoding calls made, in order
unrank(rank, n) ==
    LET s_rank == rank[1]
        l_rank == rank[2]
    IN  IF s_rank < 0 \/ l_rank < 0
        THEN [raised |-> TRUE, val |-> <<>>, decoded |-> <<>>]
        ELSE unrank_unlabelled(shape_unrank(s_rank, n), l_rank)

(***************************************************************************)
(* The state a tree object is left in by the memoising calls               *)
(***************************************************************************)
\* the object after self.shape_rank(): compute_shape_rank calls shape_rank()
\* on every child before the memo is stored
RECURSIVE after_shape_rank(_)
after_shape_rank(t) ==
    IF t._shape_rank # None THEN t
    ELSE [t EXCEPT !.children = list([i \in 1..Len(t.children) |->
                                    after_shape_rank(t.children[i])]),
                   !._shape_rank = compute_shape_rank(t)]

\* the object after self.label_rank(): shape_rank() first, then group_rank
\* calls label_rank() on every child
RECURSIVE after_label_rank(_)

\* s is the object after shape_rank(), rank what compute_label_rank() returned
after_compute_label_rank(s, rank) ==
    [s EXCEPT !.children = list([i \in 1..Len(s.children) |->
                                   after_label_rank(s.children[i])]),
              !._label_rank = rank]

after_label_rank(t) ==
    IF t._label_rank # None THEN t
    ELSE after_compute_label_rank(after_shape_rank(t), compute_label_rank(t))

\* the object after self.rank()
after_rank(t) == after_label_rank(after_shape_rank(t))

\* the object once _shape_rank and _label_rank are set back to None on it and
\* on every node below it
RECURSIVE clear_memo(_)
clear_memo(t) ==
    [t EXCEPT !.children = list([i \in 1..Len(t.children) |-> clear_memo(t.children[i])]),
              !._shape_rank = None,
              !._label_rank = None]

(***************************************************************************)
(* Equality and canonical order                                            *)
(***************************************************************************)
\* RankTree.__eq__ between two RankTree objects
RECURSIVE RankTree_eq(_, _)
RankTree_eq(self, other) ==
    IF is_leaf(self) /\ is_leaf(other) THEN self.labels[1] = other.labels[1]
    ELSE IF Len(self.children) # Len(other.children) THEN FALSE
    ELSE \A i \in 1..Len(self.children) :
            RankTree_eq(self.children[i], other.children[i])

RECURSIVE shape_equal(_, _)
shape_equal(self, other) ==
    IF is_leaf(self) /\ is_leaf(other) THEN TRUE
    ELSE IF Len(self.children) # Len(other.children) THEN FALSE
    ELSE \A i \in 1..Len(self.children) :
            shape_equal(self.children[i], other.children[i])

canonical_order(c) == <<c.num_leaves, shape_rank(c), min_label(c)>>

\* a > b for two tuples of three integers
tuple_gt(a, b) ==
    \/ a[1] > b[1]
    \/ a[1] = b[1] /\ a[2] > b[2]
    \/ a[1] = b[1] /\ a[2] = b[2] /\ a[3] > b[3]

RECURSIVE is_canonical(_)
is_canonical(t) ==
    IF is_leaf(t) THEN TRUE
    ELSE /\ \A i \in 1..(Len(t.children) - 1) :
               ~tuple_gt(canonical_order(t.children[i]),
                         canonical_order(t.children[i + 1]))
         /\ \A i \in 1..Len(t.children) : is_canonical(t.children[i])

(***************************************************************************)
(* Import from a tskit tree                                                *)
(*                                                                         *)
(* The tskit.Tree read by from_tsk_tree is [num_roots, root]; a node is    *)
(* [id, children], tree.children(u) is u.children in order and             *)
(* tree.is_leaf(u) holds when u has no children.                           *)
(***************************************************************************)
\* mutant: the children are left in the order of the source tree
sorted_not_at_all(values) == values

\* a stable sort of values by the keys computed for them: keys[i] is the key
\* of values[i]
sorted_by_key(values, keys) ==
    LET insert(order, i) ==
            LET pos == Cardinality({j \in 1..Len(order) :
                           ~tuple_gt(keys[order[j]], keys[i])})
            IN  SubSeq(order, 1, pos) \o <<i>> \o SubSeq(order, pos + 1, Len(order))
        loop[i \in 0..Len(values)] ==
            IF i = 0 THEN <<>> ELSE insert(loop[i - 1], i)
        order == loop[Len(values)]
    IN  list([j \in 1..Len(values) |-> values[order[j]]])

\* sorted(values, key=RankTree.canonical_order)
sorted_by_canonical_order(values) ==
    sorted_by_key(values,
                  list([i \in 1..Len(values) |-> canonical_order(values[i])]))

\* the children once the sort key has called shape_rank() on each of them
after_canonical_order(built) ==
    list([i \in 1..Len(built) |-> after_shape_rank(built[i])])

RECURSIVE from_tsk_tree_node(_)
from_tsk_tree_node(u) ==
    IF Len(u.children) = 0 THEN RankTree(<<>>, u.id)
    ELSE RankTree(
             sorted_by_canonical_order(
                 after_canonical_order(
                     list([i \in 1..Len(u.children) |->
                              from_tsk_tree_node(u.children[i])]))),
             None)

\* mutant: only two or more roots are refused
from_tsk_tree_some_root(tsk) ==
    IF tsk.num_roots > 1 THEN [raised |-> TRUE, val |-> <<>>]
    ELSE [raised |-> FALSE, val |-> from_tsk_tree_node(tsk.root)]

\* RankTree.from_tsk_tree: [raised, val]
from_tsk_tree(tsk) ==
    IF tsk.num_roots # 1 THEN [raised |-> TRUE, val |-> <<>>]
    ELSE [raised |-> FALSE, val |-> from_tsk_tree_node(tsk.root)]

(***************************************************************************)
(* Enumeration: each generator is the sequence of the values it yields     *)
(***************************************************************************)
RECURSIVE all_unlabelled_trees(_)
RECURSIVE all_subtree_pairings(_)

\* for first in firsts: for rest in rests: yield first + rest
product(firsts, rests) ==
    Concat(list([i \in 1..Len(firsts) |->
               list([j \in 1..Len(rests) |-> firsts[i] \o rests[j]])]))

\* for children in children_lists: yield RankTree(children=children)
\* mutant: the first child is moved behind the others
trees_of_rotated(children_lists) ==
    list([j \in 1..Len(children_lists) |->
             RankTree(Tail(children_lists[j]) \o <<Head(children_lists[j])>>, None)])

trees_of(children_lists) ==
    list([j \in 1..Len(children_lists) |-> RankTree(children_lists[j], None)])

\* mutant: the trees of a group are chosen without replacement
all_subtree_pairings_without_replacement(grouped_part) ==
    IF Len(grouped_part) = 0 THEN << <<>> >>
    ELSE LET g == grouped_part[1]
             k == g[1]
             num_k_leaf_trees == Len(g)
         IN  product(combinations(all_unlabelled_trees(k), num_k_leaf_trees),
                     all_subtree_pairings(Tail(grouped_part)))

\* for part in partitions(n): for subtree_pairing in ...: yield RankTree(...)
all_unlabelled_trees_of(parts) ==
    Concat(list([i \in 1..Len(parts) |->
               trees_of(all_subtree_pairings(group_partition(parts[i])))]))

all_unlabelled_trees(n) ==
    IF n = 1 THEN <<RankTree(<<>>, None)>>
    ELSE all_unlabelled_trees_of(partitions(n))

all_subtree_pairings(grouped_part) ==
    IF Len(grouped_part) = 0 THEN << <<>> >>
    ELSE LET g == grouped_part[1]
             k == g[1]
             num_k_leaf_trees == Len(g)
         IN  product(combinations_with_replacement(all_unlabelled_trees(k),
                                                   num_k_leaf_trees),
                     all_subtree_pairings(Tail(grouped_part)))

RECURSIVE all_labellings(_, _)
RECURSIVE label_all_groups(_, _)
RECURSIVE label_tree_group(_, _)

\* [labeled_first] for each labeled_first
singletons(s) == list([i \in 1..Len(s) |-> <<s[i]>>])

\* for first_labels in ...: for labeled_first in all_labellings(first,
\* first_labels): for labeled_rest in label_tree_group(rest, rest_labels): ...
label_tree_group_with(trees, labels, all_first_labels) ==
    Concat(list([c \in 1..Len(all_first_labels) |->
        product(singletons(all_labellings(trees[1], all_first_labels[c])),
                label_tree_group(Tail(trees),
                                 set_minus(labels, all_first_labels[c])))]))

\* mutant: the first tree of a group is not given the minimum label
label_tree_group_any_first(trees, labels) ==
    IF Len(trees) = 0 THEN << <<>> >>
    ELSE LET first == trees[1]
             k == first.num_leaves
         IN  label_tree_group_with(trees, labels, combinations(labels, k))

\* all_labellings(tree, labels); a leaf is given exactly one label
all_labellings(tree, labels) ==
    IF is_leaf(tree) THEN <<RankTree(<<>>, labels[1])>>
    ELSE trees_of(label_all_groups(group_children_by_shape(tree), labels))

\* for g_labels in all_g_labels: for labeled_g in label_tree_group(g, g_labels):
\* for labeled_rest in label_all_groups(rest, rest_labels): ...
label_all_groups_with(groups, labels, all_g_labels) ==
    Concat(list([c \in 1..Len(all_g_labels) |->
        product(label_tree_group(groups[1], all_g_labels[c]),
                label_all_groups(Tail(groups),
                                 set_minus(labels, all_g_labels[c])))]))

label_all_groups(groups, labels) ==
    IF Len(groups) = 0 THEN << <<>> >>
    ELSE LET g == groups[1]
             x == Len(g)
             k == g[1].num_leaves
         IN  label_all_groups_with(groups, labels, combinations(labels, x * k))

\* [min_label] + list(first_other_labels) for each combination
with_min_label(min_lab, combs) ==
    list([c \in 1..Len(combs) |-> <<min_lab>> \o combs[c]])

label_tree_group(trees, labels) ==
    IF Len(trees) = 0 THEN << <<>> >>
    ELSE LET first == trees[1]
             k == first.num_leaves
             min_lab == labels[1]
         IN  label_tree_group_with(trees, labels,
                 with_min_label(min_lab, combinations(Tail(labels), k - 1)))

\* all_labellings(tree) with labels=None
all_labellings_default(tree) == all_labellings(tree, range(tree.num_leaves))

\* for tree in shapes: yield from all_labellings(tree)
all_labellings_of(shapes) ==
    Concat(list([i \in 1..Len(shapes) |-> all_labellings_default(shapes[i])]))

all_labelled_trees(n) == all_labellings_of(all_unlabelled_trees(n))

(***************************************************************************)
(* all_unlabelled_trees, object by object                                  *)
(*                                                                         *)
(* A RankTree object is [id, children]: id names the construction that     *)
(* made it, the call of all_unlabelled_trees it happened in followed by    *)
(* the ordinal of the yield, and children are the objects in its children  *)
(* list.  A call is named by the path of calls that leads to it: the       *)
(* all_subtree_pairings call for the p-th partition is call \o <<p>>, the   *)
(* all_unlabelled_trees(k) call inside it is call \o <<0>>, and the         *)
(* recursive call made for the f-th first_trees is call \o <<f>>.           *)
(***************************************************************************)
RECURSIVE all_unlabelled_objects(_, _)
RECURSIVE all_subtree_pairing_objects(_, _)

\* for first_trees in g_trees: for rest in all_subtree_pairings(...): the
\* generator of rest is created anew for every first_trees
RECURSIVE pairing_objects_loop(_, _, _, _, _)
pairing_objects_loop(g_trees, rest_part, call, f, yielded) ==
    IF f > Len(g_trees) THEN yielded
    ELSE pairing_objects_loop(g_trees, rest_part, call, f + 1,
             yielded \o product(<<g_trees[f]>>,
                                all_subtree_pairing_objects(rest_part, call \o <<f>>)))

\* all_k_leaf_trees is one generator: combinations_with_replacement draws
\* from the objects it yields
all_subtree_pairing_objects(grouped_part, call) ==
    IF Len(grouped_part) = 0 THEN << <<>> >>
    ELSE pairing_objects_loop(
             combinations_with_replacement(
                 all_unlabelled_objects(grouped_part[1][1], call \o <<0>>),
                 Len(grouped_part[1])),
             Tail(grouped_part), call, 1, <<>>)

\* for part in partitions(n): for subtree_pairing in all_subtree_pairings(...)
RECURSIVE unlabelled_objects_loop(_, _, _, _)
unlabelled_objects_loop(parts, call, p, pairings) ==
    IF p > Len(parts) THEN pairings
    ELSE unlabelled_objects_loop(parts, call, p + 1,
             pairings \o all_subtree_pairing_objects(group_partition(parts[p]),
                                                     call \o <<p>>))

\* yield RankTree(children=subtree_pairing): a new object for every yield
objects_of(pairings, call) ==
    list([j \in 1..Len(pairings) |-> [id |-> call \o <<j>>, children |-> pairings[j]]])

all_unlabelled_objects(n, call) ==
    IF n = 1 THEN <<[id |-> call \o <<1>>, children |-> <<>>]>>
    ELSE objects_of(unlabelled_objects_loop(partitions(n), call, 1, <<>>), call)

(***************************************************************************)
(* The inputs of the calls                                                 *)
(***************************************************************************)
\* the sequences of one or more disjoint non-empty blocks that cover the set S
RECURSIVE BlockSeqs(_)
BlockSeqs(S) ==
    {<<S>>} \cup
    UNION {{<<B>> \o r : r \in BlockSeqs(S \ B)} : B \in (SUBSET S) \ {{}, S}}

\* the tskit nodes whose leaves are exactly the ids in S; a unary internal
\* node may sit on top of at most `unary` further unary nodes
RECURSIVE TskNodes(_, _)
RECURSIVE TskChildSeqs(_, _)
TskNodes(S, unary) ==
    (IF Cardinality(S) = 1
     THEN {[id |-> CHOOSE u \in S : TRUE, children |-> <<>>]}
     ELSE {})
    \cup
    UNION {{[id |-> None, children |-> cs] :
               cs \in TskChildSeqs(bs, IF Len(bs) = 1 THEN unary - 1 ELSE unary)} :
           bs \in {b \in BlockSeqs(S) : Len(b) > 1 \/ unary > 0}}

TskChildSeqs(blocks, unary) ==
    IF Len(blocks) = 0 THEN {<<>>}
    ELSE {<<c>> \o r : c \in TskNodes(Head(blocks), unary),
                       r \in TskChildSeqs(Tail(blocks), unary)}

\* the tskit trees handed to from_tsk_tree: one root, or zero or two roots
\* (tree.root is then never read and is left as a placeholder leaf)
TskTrees ==
    {[num_roots |-> k, root |-> [id |-> None, children |-> <<>>]] : k \in {0, 2}}
    \cup
    UNION {{[num_roots |-> 1, root |-> u] : u \in TskNodes(S, MaxUnary)} :
           S \in {T \in SUBSET (0..MaxImportId) :
                     Cardinality(T) >= 1 /\ Cardinality(T) <= MaxImportLeaves}}

\* the lists of n distinct sorted elements handed to Combination.unrank: the
\* labels 0..n-1 and a list whose elements are not their own indices
Universes(n) == {range(n), list([i \in 1..n |-> 2 * i + 1])}

(***************************************************************************)
(* State                                                                   *)
(***************************************************************************)
VARIABLES
    op,        \* the call in progress: "idle" or the name of the entry point
    arg,       \* the arguments of that call
    tree,      \* the RankTree returned or last yielded, NoTree when none
    raised,    \* the call raised ValueError
    decoded,   \* the decoding calls unrank made
    ret,       \* what rank() / shape_rank() returned for tree, Unranked when not called
    count,     \* what num_shapes returned, None when not called
    pending,   \* the trees the generator has still to yield
    done,      \* the generator is exhausted
    history,   \* the trees yielded and ranked so far, with the rank returned
    back,      \* the tree unranked from ret, NoTree when none
    out,       \* the list a Combination or partitions call returned
    code,      \* the rank computed back from out, None when not called
    calls,     \* the rank calls in progress on tree, one per thread
    run        \* the call that is executed step by step, NoRun when none

vars == <<op, arg, tree, raised, decoded, ret, count, pending, done, history, back,
          out, code, calls, run>>

NoTree == [children |-> <<>>, num_leaves |-> 0, labels |-> <<>>,
           _shape_rank |-> None, _label_rank |-> None]

Unranked == <<None, None>>

\* no call is executed step by step
NoRun == [pc |-> "idle"]

HasTree == tree.num_leaves > 0

Generators == {"all_unlabelled_trees", "all_labellings", "all_labelled_trees"}

Init ==
    /\ op = "idle"
    /\ arg = [n |-> 0]
    /\ tree = NoTree
    /\ raised = FALSE
    /\ decoded = <<>>
    /\ ret = Unranked
    /\ count = None
    /\ pending = <<>>
    /\ done = FALSE
    /\ history = <<>>
    /\ back = NoTree
    /\ out = <<>>
    /\ code = None
    /\ calls = <<>>
    /\ run = NoRun

(***************************************************************************)
(* Actions                                                                 *)
(***************************************************************************)
\* RankTree.unrank((shape_rank, label_rank), num_leaves)
Unrank ==
    /\ op = "idle"
    /\ \E n \in 0..MaxN, s \in (-1)..MaxShapeRank, l \in (-1)..MaxLabelRank :
          LET returns(r) ==
                  /\ op' = "unrank"
                  /\ arg' = [n |-> n, rank |-> <<s, l>>]
                  /\ raised' = r.raised
                  /\ decoded' = r.decoded
                  /\ tree' = IF r.raised THEN NoTree ELSE r.val
          IN  returns(unrank(<<s, l>>, n))
    /\ UNCHANGED <<ret, count, pending, done, history, back, out, code, calls, run>>

\* RankTree.from_tsk_tree(tsk)
FromTskTree ==
    /\ op = "idle"
    /\ \E tsk \in TskTrees :
          LET returns(r) ==
                  /\ op' = "from_tsk_tree"
                  /\ arg' = [tsk |-> tsk]
                  /\ raised' = r.raised
                  /\ tree' = IF r.raised THEN NoTree ELSE r.val
          IN  returns(from_tsk_tree(tsk))
    /\ UNCHANGED <<decoded, ret, count, pending, done, history, back, out, code, calls, run>>

\* num_shapes(n)
NumShapes ==
    /\ op = "idle"
    /\ \E n \in 0..(MaxN + 2) :
          /\ op' = "num_shapes"
          /\ arg' = [n |-> n]
          /\ count' = num_shapes(n)
    /\ UNCHANGED <<tree, raised, decoded, ret, pending, done, history, back, out, code, calls, run>>

\* RankTree.all_unlabelled_trees(n): the generator is created, nothing runs yet
AllUnlabelledTrees ==
    /\ op = "idle"
    /\ \E n \in 1..MaxN :
          /\ op' = "all_unlabelled_trees"
          /\ arg' = [n |-> n]
          /\ pending' = all_unlabelled_trees(n)
    /\ UNCHANGED <<tree, raised, decoded, ret, count, done, history, back, out, code, calls, run>>

\* RankTree.all_labellings(T) for a shape T from shape_unrank or from
\* all_unlabelled_trees
AllLabellings ==
    /\ op = "idle"
    /\ \E n \in 1..MaxN :
          \/ \E s \in 0..MaxShapeRank :
                LET returns(u) ==
                        /\ ~u.raised
                        /\ arg' = [n |-> n, shape |-> u.val, from |-> "shape_unrank"]
                        /\ pending' = all_labellings_default(u.val)
                IN  returns(shape_unrank(s, n))
          \/ \E T \in Range(all_unlabelled_trees(n)) :
                /\ arg' = [n |-> n, shape |-> T, from |-> "all_unlabelled_trees"]
                /\ pending' = all_labellings_default(T)
    /\ op' = "all_labellings"
    /\ UNCHANGED <<tree, raised, decoded, ret, count, done, history, back, out, code, calls, run>>

\* RankTree.all_labelled_trees(n)
AllLabelledTrees ==
    /\ op = "idle"
    /\ \E n \in 1..MaxN :
          /\ op' = "all_labelled_trees"
          /\ arg' = [n |-> n]
          /\ pending' = all_labelled_trees(n)
    /\ UNCHANGED <<tree, raised, decoded, ret, count, done, history, back, out, code, calls, run>>

\* next() on the generator: the caller ranks each tree before asking for the next
GenNext ==
    /\ op \in Generators
    /\ ~done
    /\ HasTree => ret # Unranked
    /\ IF Len(pending) > 0
       THEN /\ tree' = Head(pending)
            /\ pending' = Tail(pending)
            /\ done' = FALSE
       ELSE /\ tree' = NoTree
            /\ done' = TRUE
            /\ UNCHANGED pending
    /\ ret' = Unranked
    /\ back' = NoTree
    /\ UNCHANGED <<op, arg, raised, decoded, count, history, out, code, calls, run>>

\* tree.shape_rank() on a yielded shape
ShapeRank ==
    /\ op = "all_unlabelled_trees"
    /\ HasTree
    /\ ret = Unranked
    /\ ret' = <<shape_rank(tree), None>>
    /\ tree' = after_shape_rank(tree)
    /\ history' = Append(history, [tree |-> tree, rank |-> ret'])
    /\ UNCHANGED <<op, arg, raised, decoded, count, pending, done, back, out, code, calls, run>>

\* tree.rank() on a labelled tree
Rank ==
    /\ op \in {"unrank", "from_tsk_tree", "all_labellings", "all_labelled_trees"}
    /\ HasTree
    /\ ret = Unranked
    /\ ret' = RankTree_rank(tree)
    /\ tree' = after_rank(tree)
    /\ history' = IF op \in Generators
                  THEN Append(history, [tree |-> tree, rank |-> ret'])
                  ELSE history
    /\ UNCHANGED <<op, arg, raised, decoded, count, pending, done, back, out, code, calls, run>>

\* RankTree.unrank(tree.rank(), n) for a tree of the enumeration
UnrankBack ==
    /\ op = "all_labelled_trees"
    /\ HasTree
    /\ ret # Unranked
    /\ back = NoTree
    /\ LET returns(r) ==
               /\ raised' = r.raised
               /\ back' = IF r.raised THEN NoTree ELSE r.val
       IN  returns(unrank(ret, arg.n))
    /\ UNCHANGED <<op, arg, tree, decoded, ret, count, pending, done, history, out, code, calls, run>>

\* Combination.unrank(rank, elements, k)
CombinationUnrank ==
    /\ op = "idle"
    /\ \E n \in 0..MaxElements, k \in 0..(MaxElements + 1) :
          \E elements \in Universes(n), r \in 0..(comb(n, k) - 1 + MaxOver) :
             LET returns(u) ==
                     /\ op' = "Combination.unrank"
                     /\ arg' = [rank |-> r, elements |-> elements, k |-> k]
                     /\ raised' = u.raised
                     /\ out' = u.val
             IN  returns(Combination_unrank(r, elements, k))
    /\ UNCHANGED <<tree, decoded, ret, count, pending, done, history, back, code, calls, run>>

\* Combination.with_replacement_unrank(rank, n, k)
WithReplacementUnrank ==
    /\ op = "idle"
    /\ \E n \in 1..MaxPool, k \in 0..MaxK :
          \E r \in 0..(comb_with_replacement(n, k) - 1 + MaxOver) :
             /\ op' = "Combination.with_replacement_unrank"
             /\ arg' = [rank |-> r, n |-> n, k |-> k]
             /\ out' = with_replacement_unrank(r, n, k)
    /\ UNCHANGED <<tree, raised, decoded, ret, count, pending, done, history, back, code, calls, run>>

\* Combination.rank(out, elements) / Combination.with_replacement_rank(out, n)
\* on the list the unranker returned
RankBack ==
    /\ op \in {"Combination.unrank", "Combination.with_replacement_unrank"}
    /\ ~raised
    /\ code = None
    /\ code' = IF op = "Combination.unrank"
               THEN Combination_rank(out, arg.elements)
               ELSE with_replacement_rank(out, arg.n)
    /\ UNCHANGED <<op, arg, tree, raised, decoded, ret, count, pending, done, history, back, out, calls, run>>

\* list(partitions(n))
Partitions ==
    /\ op = "idle"
    /\ \E n \in 0..MaxPart :
          /\ op' = "partitions"
          /\ arg' = [n |-> n]
          /\ out' = partitions(n)
    /\ UNCHANGED <<tree, raised, decoded, ret, count, pending, done, history, back, code, calls, run>>

\* list(partitions(n)) once more, kept next to the first list
PartitionsAgain ==
    /\ op = "partitions"
    /\ Len(history) < MaxAgain
    /\ history' = Append(history, partitions(arg.n))
    /\ UNCHANGED <<op, arg, tree, raised, decoded, ret, count, pending, done, back, out, code, calls, run>>

\* list(RankTree.all_unlabelled_trees(n)), the objects it yields
AllUnlabelledObjects ==
    /\ op = "idle"
    /\ \E n \in 1..MaxN :
          /\ op' = "all_unlabelled_trees objects"
          /\ arg' = [n |-> n]
          /\ out' = all_unlabelled_objects(n, <<>>)
    /\ UNCHANGED <<tree, raised, decoded, ret, count, pending, done, history, back, code, calls, run>>

\* Combination.comb(n, k), with the products its loop went through
Comb ==
    /\ op = "idle"
    /\ \E n \in 0..MaxCombN, k \in 0..MaxCombN :
          /\ k <= n
          /\ op' = "Combination.comb"
          /\ arg' = [n |-> n, k |-> k]
          /\ count' = comb(n, k)
          /\ out' = comb_products(n, k)
    /\ UNCHANGED <<tree, raised, decoded, ret, pending, done, history, back, code, calls, run>>

\* Combination.comb_with_replacement(n, k)
CombWithReplacement ==
    /\ op = "idle"
    /\ \E n \in 1..MaxPool, k \in 0..MaxK :
          /\ op' = "Combination.comb_with_replacement"
          /\ arg' = [n |-> n, k |-> k]
          /\ count' = comb_with_replacement(n, k)
    /\ UNCHANGED <<tree, raised, decoded, ret, pending, done, history, back, out, code, calls, run>>

\* every stored rank of the tree unrank returned is cleared, then tree.rank()
RankCleared ==
    /\ op = "unrank"
    /\ HasTree
    /\ ret = Unranked
    /\ op' = "unrank, ranks cleared"
    /\ ret' = RankTree_rank(clear_memo(tree))
    /\ tree' = after_rank(clear_memo(tree))
    /\ UNCHANGED <<arg, raised, decoded, count, pending, done, history, back, out, code, calls, run>>

Next ==
    \/ Unrank
    \/ FromTskTree
    \/ NumShapes
    \/ AllUnlabelledTrees
    \/ AllLabellings
    \/ AllLabelledTrees
    \/ GenNext
    \/ ShapeRank
    \/ Rank
    \/ UnrankBack
    \/ CombinationUnrank
    \/ WithReplacementUnrank
    \/ RankBack
    \/ Partitions
    \/ PartitionsAgain
    \/ AllUnlabelledObjects
    \/ Comb
    \/ CombWithReplacement
    \/ RankCleared

Spec == Init /\ [][Next]_vars

(***************************************************************************)
(* Properties                                                              *)
(***************************************************************************)
\* the rank pairs the rank value contract calls valid for n leaves
InRange(n, rk) ==
    /\ n >= 1
    /\ rk[1] >= 0 /\ rk[1] < num_shapes(n)
    /\ rk[2] >= 0 /\ rk[2] < num_labellings(rk[1], n)

\* the i-th (0-based) valid (shape_rank, label_rank) pair for n leaves in
\* lexicographic order, counted from shape rank s on; Unranked when there are
\* no more than i such pairs
RECURSIVE ValidPairFrom(_, _, _)
ValidPairFrom(n, s, i) ==
    IF s >= num_shapes(n) THEN Unranked
    ELSE LET c == num_labellings(s, n)
         IN  IF i < c THEN <<s, i>> ELSE ValidPairFrom(n, s + 1, i - c)

ValidPair(n, i) == ValidPairFrom(n, 0, i)

Last(s) == s[Len(s)]

\* C1: round trip: when unrank((shape_rank, label_rank), n) is given ranks in
\* range (n >= 1, shape_rank < num_shapes(n), label_rank <
\* num_labellings(shape_rank, n)), it returns a tree, and rank() on that tree
\* returns exactly (shape_rank, label_rank).
C1_RoundTrip ==
    (op = "unrank" /\ InRange(arg.n, arg.rank)) =>
        /\ ~raised /\ HasTree
        /\ ret # Unranked => ret = arg.rank

C1_Witness ==
    /\ op = "unrank" /\ arg.n = 4 /\ arg.rank = <<3, 7>>
    /\ HasTree /\ ret = <<3, 7>>

\* C2: inverse direction: for every tree t yielded by all_labelled_trees(n),
\* unrank(t.rank(), n) returns a tree equal to t under __eq__, and a tree
\* yielded earlier that is not equal to t has a different rank() pair.
C2_UnrankOfRank ==
    op = "all_labelled_trees" =>
        /\ ~raised
        /\ back.num_leaves > 0 => RankTree_eq(back, tree)
        /\ \A i \in 1..(Len(history) - 1) :
              ~RankTree_eq(history[i].tree, Last(history).tree)
                  => history[i].rank # Last(history).rank

C2_Witness ==
    /\ op = "all_labelled_trees" /\ arg.n = 4
    /\ Len(history) = 20 /\ back.num_leaves = 4 /\ ret = <<3, 8>>

\* C3: bijection coverage: all_labelled_trees(n) yields pairwise distinct
\* trees (under __eq__), the i-th yielded tree has rank() equal to the i-th
\* valid (shape_rank, label_rank) pair in lexicographic order, and the
\* generator is exhausted exactly when every valid pair has been yielded.
C3_EnumerationInRankOrder ==
    op = "all_labelled_trees" =>
        /\ Len(history) > 0 =>
              /\ Last(history).rank # Unranked
              /\ Last(history).rank = ValidPair(arg.n, Len(history) - 1)
              /\ \A i \in 1..(Len(history) - 1) :
                    ~RankTree_eq(history[i].tree, Last(history).tree)
        /\ done => ValidPair(arg.n, Len(history)) = Unranked

C3_Witness ==
    /\ op = "all_labelled_trees" /\ arg.n = 4 /\ done /\ Len(history) = 26

\* C4: shape enumeration matches shape ranking: all_unlabelled_trees(n) yields
\* exactly num_shapes(n) trees, no two of them shape_equal, and the i-th
\* yielded tree (0-based) has shape rank i.
C4_ShapesInRankOrder ==
    op = "all_unlabelled_trees" =>
        /\ Len(history) <= num_shapes(arg.n)
        /\ Len(history) > 0 =>
              /\ Last(history).rank[1] = Len(history) - 1
              /\ Last(history).rank[1] = compute_shape_rank(Last(history).tree)
              /\ \A i \in 1..(Len(history) - 1) :
                    ~shape_equal(history[i].tree, Last(history).tree)
        /\ done => Len(history) = num_shapes(arg.n)

C4_Witness ==
    /\ op = "all_unlabelled_trees" /\ arg.n = 4 /\ done /\ Len(history) = 5

\* C5: labelling enumeration matches label ranking: for a shape T from
\* shape_unrank or all_unlabelled_trees, all_labellings(T) yields exactly
\* T.num_labellings() trees, pairwise distinct under __eq__, all shape_equal
\* to T, and the i-th yielded tree (0-based) has label rank i.
C5_LabellingsInRankOrder ==
    op = "all_labellings" =>
        /\ Len(history) <= RankTree_num_labellings(arg.shape)
        /\ Len(history) > 0 =>
              /\ Last(history).rank[2] = Len(history) - 1
              /\ Last(history).rank[2] = compute_label_rank(Last(history).tree)
              /\ shape_equal(Last(history).tree, arg.shape)
              /\ \A i \in 1..(Len(history) - 1) :
                    ~RankTree_eq(history[i].tree, Last(history).tree)
        /\ done => Len(history) = RankTree_num_labellings(arg.shape)

C5_Witness ==
    /\ op = "all_labellings" /\ arg.n = 4 /\ done /\ Len(history) = 12

\* C6 as stated: num_shapes(1) = 1, num_shapes(2) = 1, num_shapes(3) = 1 and
\* num_shapes(4) = 2.
C6_Original ==
    op = "num_shapes" =>
        /\ arg.n \in {1, 2, 3} => count = 1
        /\ arg.n = 4 => count = 2

\* C6 (amended): num_shapes(1) = 1, num_shapes(2) = 1, num_shapes(3) = 2 and
\* num_shapes(4) = 5: the shapes counted include the nodes with more than
\* two children.
C6_ShapeCounts ==
    op = "num_shapes" =>
        /\ arg.n \in {1, 2} => count = 1
        /\ arg.n = 3 => count = 2
        /\ arg.n = 4 => count = 5

C6_Witness == op = "num_shapes" /\ arg.n = 4 /\ count = 5

\* C7: canonical order: every tree built by from_tsk_tree, by unrank with
\* ranks in range, or yielded by all_unlabelled_trees, all_labellings or
\* all_labelled_trees satisfies is_canonical().
C7_Canonical ==
    /\ (HasTree /\ op \in Generators \cup {"from_tsk_tree"}) => is_canonical(tree)
    /\ (HasTree /\ op = "unrank" /\ InRange(arg.n, arg.rank)) => is_canonical(tree)

\* an import whose first child in the source is the larger one, so that the
\* children had to be reordered
C7_Witness ==
    /\ op = "from_tsk_tree" /\ HasTree
    /\ Len(arg.tsk.root.children) = 2
    /\ Len(arg.tsk.root.children[1].children) = 2
    /\ Len(arg.tsk.root.children[2].children) = 0
    /\ is_leaf(tree.children[1])

\* C8 as stated: for n >= 1, shape_rank >= num_shapes(n) and label_rank >= 0,
\* unrank fails with the out-of-bounds ValueError and returns no tree.
C8_ShapeRankOutOfBounds ==
    (/\ op = "unrank" /\ arg.n >= 1
     /\ arg.rank[1] >= num_shapes(arg.n) /\ arg.rank[2] >= 0) =>
        raised /\ ~HasTree

\* C9: out-of-bounds label rank: for n >= 1, shape_rank in [0, num_shapes(n))
\* and label_rank >= num_labellings(shape_rank, n), unrank fails with the
\* out-of-bounds ValueError rather than returning a tree.
C9_LabelRankOutOfBounds ==
    (/\ op = "unrank" /\ arg.n >= 1
     /\ arg.rank[1] >= 0 /\ arg.rank[1] < num_shapes(arg.n)
     /\ arg.rank[2] >= num_labellings(arg.rank[1], arg.n)) =>
        raised /\ ~HasTree

C9_Witness ==
    /\ op = "unrank" /\ arg.n = 4 /\ arg.rank = <<3, 12>>
    /\ raised /\ ~HasTree

\* C10: negative ranks: unrank with shape_rank < 0 or label_rank < 0 raises
\* the out-of-bounds ValueError before any shape or label decoding is
\* performed, for every n.
C10_NegativeRanks ==
    (op = "unrank" /\ (arg.rank[1] < 0 \/ arg.rank[2] < 0)) =>
        raised /\ ~HasTree /\ decoded = <<>>

C10_Witness ==
    /\ op = "unrank" /\ arg.n = 3 /\ arg.rank = <<1, -1>>
    /\ raised /\ decoded = <<>>

(***************************************************************************)
(* Interleaved shape_rank(), label_rank() and rank() calls on one tree     *)
(*                                                                         *)
(* calls[i] is the i-th call made on tree: [method, todo, local, returns]. *)
(* todo lists the steps the call has still to take, local is the value it  *)
(* computed and has not stored yet, returns the values the shape_rank()    *)
(* and label_rank() calls it made have returned, in order.                 *)
(***************************************************************************)
\* the trees the calls are made on: the trees all_labelled_trees yields (no
\* rank stored) and the trees unrank returns (ranks stored by label_unrank)
SharedTrees ==
    UNION {Range(all_labelled_trees(n)) : n \in 1..MaxSharedLeaves}
    \cup
    UNION {{unrank(<<s, l>>, n).val :
               l \in {x \in 0..MaxLabelRank : InRange(n, <<s, x>>)}} :
           n \in 1..MaxSharedLeaves, s \in 0..MaxShapeRank}

InitCalls ==
    /\ op = "calls"
    /\ arg = [n |-> 0]
    /\ tree \in SharedTrees
    /\ raised = FALSE
    /\ decoded = <<>>
    /\ ret = Unranked
    /\ count = None
    /\ pending = <<>>
    /\ done = FALSE
    /\ history = <<>>
    /\ back = NoTree
    /\ out = <<>>
    /\ code = None
    /\ calls = <<>>
    /\ run = NoRun

\* rank() calls shape_rank() and then label_rank()
Steps(method) ==
    IF method = "shape_rank" THEN <<"check_shape">>
    ELSE IF method = "label_rank" THEN <<"check_label">>
    ELSE <<"check_shape", "check_label">>

Others == <<op, arg, raised, decoded, ret, count, pending, done, history, back, out, code, run>>

\* the call i is at the step named
At(i, step) == Len(calls[i].todo) > 0 /\ Head(calls[i].todo) = step

\* a thread calls tree.shape_rank(), tree.label_rank() or tree.rank()
Call ==
    /\ op = "calls"
    /\ Len(calls) < MaxCalls
    /\ \E method \in {"shape_rank", "label_rank", "rank"} :
          calls' = Append(calls, [method |-> method, todo |-> Steps(method),
                                  local |-> None, returns |-> <<>>])
    /\ UNCHANGED <<tree, Others>>

\* if self._shape_rank is None
CheckShape ==
    \E i \in 1..Len(calls) :
        /\ At(i, "check_shape")
        /\ calls' = [calls EXCEPT ![i].todo =
                        (IF tree._shape_rank = None
                         THEN <<"compute_shape", "write_shape", "return_shape">>
                         ELSE <<"return_shape">>) \o Tail(@)]
        /\ UNCHANGED <<tree, Others>>

\* self.compute_shape_rank(): shape_rank() is called on every child
ComputeShape ==
    \E i \in 1..Len(calls) :
        /\ At(i, "compute_shape")
        /\ calls' = [calls EXCEPT ![i].todo = Tail(@),
                                  ![i].local = compute_shape_rank(tree)]
        /\ tree' = [tree EXCEPT !.children =
                       list([c \in 1..Len(tree.children) |->
                                after_shape_rank(tree.children[c])])]
        /\ UNCHANGED Others

\* mutant: the store adds to the rank already stored
stored_accumulated(old, value) == IF old = None THEN value ELSE old + value + 1

\* self._shape_rank = value, self._label_rank = value: the field after the store
stored(old, value) == value

\* self._shape_rank = ...
WriteShape ==
    \E i \in 1..Len(calls) :
        /\ At(i, "write_shape")
        /\ calls' = [calls EXCEPT ![i].todo = Tail(@), ![i].local = None]
        /\ tree' = [tree EXCEPT !._shape_rank = stored(@, calls[i].local)]
        /\ UNCHANGED Others

\* return self._shape_rank
ReturnShape ==
    \E i \in 1..Len(calls) :
        /\ At(i, "return_shape")
        /\ calls' = [calls EXCEPT ![i].todo = Tail(@),
                                  ![i].returns = Append(@, <<"shape_rank", tree._shape_rank>>)]
        /\ UNCHANGED <<tree, Others>>

\* if self._label_rank is None: assert self.shape_rank() is not None
CheckLabel ==
    \E i \in 1..Len(calls) :
        /\ At(i, "check_label")
        /\ calls' = [calls EXCEPT ![i].todo =
                        (IF tree._label_rank = None
                         THEN <<"check_shape", "compute_label", "write_label",
                                "return_label">>
                         ELSE <<"return_label">>) \o Tail(@)]
        /\ UNCHANGED <<tree, Others>>

\* self.compute_label_rank(): shape_rank() and label_rank() are called on
\* every child
ComputeLabel ==
    \E i \in 1..Len(calls) :
        /\ At(i, "compute_label")
        /\ calls' = [calls EXCEPT ![i].todo = Tail(@),
                                  ![i].local = compute_label_rank(tree)]
        /\ tree' = [tree EXCEPT !.children =
                       list([c \in 1..Len(tree.children) |->
                                after_label_rank(tree.children[c])])]
        /\ UNCHANGED Others

\* self._label_rank = ...
WriteLabel ==
    \E i \in 1..Len(calls) :
        /\ At(i, "write_label")
        /\ calls' = [calls EXCEPT ![i].todo = Tail(@), ![i].local = None]
        /\ tree' = [tree EXCEPT !._label_rank = stored(@, calls[i].local)]
        /\ UNCHANGED Others

\* return self._label_rank
ReturnLabel ==
    \E i \in 1..Len(calls) :
        /\ At(i, "return_label")
        /\ calls' = [calls EXCEPT ![i].todo = Tail(@),
                                  ![i].returns = Append(@, <<"label_rank", tree._label_rank>>)]
        /\ UNCHANGED <<tree, Others>>

NextCalls ==
    \/ Call
    \/ CheckShape
    \/ ComputeShape
    \/ WriteShape
    \/ ReturnShape
    \/ CheckLabel
    \/ ComputeLabel
    \/ WriteLabel
    \/ ReturnLabel

SpecCalls == InitCalls /\ [][NextCalls]_vars

(***************************************************************************)
(* rule_asc, with_replacement_unrank and unrank, one step at a time        *)
(*                                                                         *)
(* run holds the locals of the call in progress; run.pc is the position in *)
(* its code, "returned", "raised", "exhausted" or "ranked" once it is over.*)
(***************************************************************************)
NotRun == <<tree, raised, decoded, ret, count, pending, done, history, back, out, code, calls>>

\* rule_asc(n): a = [0 for _ in range(n + 1)]; k = 1; a[1] = n
RuleAscStart ==
    /\ op = "idle"
    /\ \E n \in 1..MaxPart :
          /\ op' = "rule_asc"
          /\ arg' = [n |-> n]
          /\ run' = [pc |-> "while k != 0",
                     a |-> [i \in 0..n |-> IF i = 1 THEN n ELSE 0],
                     k |-> 1, x |-> 0, y |-> 0, yielded |-> <<>>]
    /\ UNCHANGED NotRun

\* while k != 0: x = a[k - 1] + 1; y = a[k] - 1; k -= 1
RuleAscOuter ==
    /\ op = "rule_asc"
    /\ run.pc = "while k != 0"
    /\ run' = IF run.k # 0
              THEN [run EXCEPT !.pc = "while x <= y",
                               !.x = run.a[run.k - 1] + 1,
                               !.y = run.a[run.k] - 1,
                               !.k = run.k - 1]
              ELSE [run EXCEPT !.pc = "exhausted"]
    /\ UNCHANGED <<op, arg, NotRun>>

\* while x <= y: a[k] = x; y -= x; k += 1; then a[k] = x + y; yield a[: k + 1]
RuleAscInner ==
    /\ op = "rule_asc"
    /\ run.pc = "while x <= y"
    /\ run' = IF run.x <= run.y
              THEN [run EXCEPT !.a[run.k] = run.x,
                               !.y = run.y - run.x,
                               !.k = run.k + 1]
              ELSE [run EXCEPT !.pc = "while k != 0",
                               !.a[run.k] = run.x + run.y,
                               !.yielded = Append(@,
                                   list([i \in 1..(run.k + 1) |->
                                            IF i - 1 = run.k THEN run.x + run.y
                                            ELSE run.a[i - 1]]))]
    /\ UNCHANGED <<op, arg, NotRun>>

\* mutant: no combination is counted once the pool is used up
next_preceding_none_when_used_up(n, i, k) ==
    IF n - i <= 0 THEN 0 ELSE comb_with_replacement(n - i, k - 1)

\* preceding = Combination.comb_with_replacement(n - i, k - 1)
next_preceding(n, i, k) == comb_with_replacement(n - i, k - 1)

\* the locals of with_replacement_unrank(rank, n, k) at its while loop, or its
\* return when k == 0; shift is the sum of the i of the enclosing calls and
\* result the elements they have fixed
with_replacement_unrank_called(rank, n, k, shift, result) ==
    IF k = 0
    THEN [pc |-> "returned", rank |-> rank, n |-> n, k |-> k, i |-> 0,
          preceding |-> 0, shift |-> shift, result |-> result]
    ELSE [pc |-> "while rank >= preceding", rank |-> rank, n |-> n, k |-> k,
          i |-> 0, preceding |-> comb_with_replacement(n, k - 1),
          shift |-> shift, result |-> result]

\* Combination.with_replacement_unrank(rank, n, k)
WithReplacementUnrankStart ==
    /\ op = "idle"
    /\ \E n \in 1..MaxPool, k \in 0..MaxK :
          \E r \in 0..(comb_with_replacement(n, k) - 1 + MaxOver) :
             /\ op' = "with_replacement_unrank"
             /\ arg' = [rank |-> r, n |-> n, k |-> k]
             /\ run' = with_replacement_unrank_called(r, n, k, 0, <<>>)
    /\ UNCHANGED NotRun

\* while rank >= preceding: rank -= preceding; i += 1; preceding = ...
WithReplacementUnrankWhile ==
    /\ op = "with_replacement_unrank"
    /\ run.pc = "while rank >= preceding"
    /\ run.rank >= run.preceding
    /\ run.i < MaxIter
    /\ run' = [run EXCEPT !.rank = run.rank - run.preceding,
                          !.i = run.i + 1,
                          !.preceding = next_preceding(run.n, run.i + 1, run.k)]
    /\ UNCHANGED <<op, arg, NotRun>>

\* rest = with_replacement_unrank(rank, n - i, k - 1);
\* return [i] + [x + i for x in rest]: the element i, shifted by the enclosing
\* calls, is fixed and the inner call starts
WithReplacementUnrankRest ==
    /\ op = "with_replacement_unrank"
    /\ run.pc = "while rank >= preceding"
    /\ run.rank < run.preceding
    /\ run' = with_replacement_unrank_called(run.rank, run.n - run.i, run.k - 1,
                                             run.shift + run.i,
                                             Append(run.result, run.shift + run.i))
    /\ UNCHANGED <<op, arg, NotRun>>

\* What the calls made while unrank runs return, tabulated over the arguments
\* they can be made with, so that a step looks the value up.
ShapeUnrankReturns ==
    {[rank |-> r, n |-> n, c |-> children_shape_ranks(r, n), t |-> shape_unrank(r, n)] :
        r \in 0..MaxShapeRank, n \in 1..MaxN}

\* the trees label_unrank is called on: the shapes shape_unrank returns
UnlabelledTrees == {e.t.val : e \in {x \in ShapeUnrankReturns : ~x.t.raised}}

LabelUnrankReturns ==
    UNION {{[self |-> self, rank |-> r, labels |-> labels,
             c |-> children_label_ranks(group_children_by_shape(self), r, labels)] :
               r \in 0..MaxLabelRank,
               labels \in Range(combinations(range(MaxN), self.num_leaves))} :
           self \in {t \in UnlabelledTrees : ~is_leaf(t)}}

UnrankReturns ==
    {[rank |-> <<s, l>>, n |-> n, u |-> unrank(<<s, l>>, n)] :
        s \in 0..MaxShapeRank, l \in 0..MaxLabelRank, n \in 1..MaxN}

\* children_shape_ranks(rank, n) and shape_unrank(rank, n)
shape_unrank_returns(rank, n) ==
    CHOOSE e \in ShapeUnrankReturns : e.rank = rank /\ e.n = n

\* children_label_ranks(self.group_children_by_shape(), rank, labels)
label_unrank_returns(self, rank, labels) ==
    CHOOSE e \in LabelUnrankReturns :
        e.self = self /\ e.rank = rank /\ e.labels = labels

\* RankTree.unrank(rank, n)
unrank_returns(rank, n) ==
    CHOOSE e \in UnrankReturns : e.rank = rank /\ e.n = n

\* RankTree.unrank((s, l), n) with s >= 0 and l >= 0: shape_unrank(s, n) is
\* called; run.jobs are the calls made and not yet executed, the next first
UnrankStart ==
    /\ op = "idle"
    /\ \E n \in 1..MaxN, s \in 0..MaxShapeRank, l \in 0..MaxLabelRank :
          /\ op' = "RankTree.unrank"
          /\ arg' = [rank |-> <<s, l>>, n |-> n]
          /\ run' = [pc |-> "shape_unrank", jobs |-> <<[rank |-> s, n |-> n]>>]
    /\ UNCHANGED NotRun

\* the calls [RankTree.shape_unrank(rk, k) for rk, k in zip(child_shape_ranks, part)]
shape_unrank_calls(c) ==
    list([i \in 1..Min(Len(c.child_ranks), Len(c.part)) |->
             [rank |-> c.child_ranks[i], n |-> c.part[i]]])

\* one call of shape_unrank(rank, n): children_shape_ranks raises, or a
\* shape_unrank call is made for every child
ShapeUnrankCall ==
    /\ op = "RankTree.unrank"
    /\ run.pc = "shape_unrank"
    /\ Len(run.jobs) > 0
    /\ LET returns(c) ==
               run' = IF c.raised THEN [pc |-> "raised", jobs |-> <<>>]
                      ELSE [run EXCEPT !.jobs = shape_unrank_calls(c) \o Tail(run.jobs)]
       IN  returns(shape_unrank_returns(Head(run.jobs).rank, Head(run.jobs).n).c)
    /\ UNCHANGED <<op, arg, NotRun>>

\* every shape_unrank call has returned: unlabelled.label_unrank(label_rank)
\* is called with labels = list(range(n))
ShapeUnrankReturn ==
    /\ op = "RankTree.unrank"
    /\ run.pc = "shape_unrank"
    /\ Len(run.jobs) = 0
    /\ LET returns(unlabelled) ==
               run' = [pc |-> "label_unrank",
                       jobs |-> <<[self |-> unlabelled.val, rank |-> arg.rank[2],
                                   labels |-> range(arg.n)]>>]
       IN  returns(shape_unrank_returns(arg.rank[1], arg.n).t)
    /\ UNCHANGED <<op, arg, NotRun>>

\* the calls [RankTree.label_unrank(c, c_rank, c_labels) for ... in zip(...)]
label_unrank_calls(children, c) ==
    list([i \in 1..Min(Len(children),
                       Min(Len(c.child_label_ranks), Len(c.child_labels))) |->
             [self |-> children[i], rank |-> c.child_label_ranks[i],
              labels |-> c.child_labels[i]]])

\* one call of label_unrank(self, label_rank, labels): a leaf returns or
\* raises; an internal node raises in children_label_ranks or makes a
\* label_unrank call for every child
LabelUnrankCall ==
    /\ op = "RankTree.unrank"
    /\ run.pc = "label_unrank"
    /\ Len(run.jobs) > 0
    /\ IF is_leaf(Head(run.jobs).self)
       THEN run' = IF Head(run.jobs).rank # 0 THEN [pc |-> "raised", jobs |-> <<>>]
                   ELSE [run EXCEPT !.jobs = Tail(run.jobs)]
       ELSE LET returns(c) ==
                    run' = IF c.raised THEN [pc |-> "raised", jobs |-> <<>>]
                           ELSE [run EXCEPT !.jobs =
                                    label_unrank_calls(Head(run.jobs).self.children, c)
                                    \o Tail(run.jobs)]
            IN  returns(label_unrank_returns(Head(run.jobs).self, Head(run.jobs).rank,
                                             Head(run.jobs).labels).c)
    /\ UNCHANGED <<op, arg, NotRun>>

\* every label_unrank call has returned: unrank returns the tree
LabelUnrankReturn ==
    /\ op = "RankTree.unrank"
    /\ run.pc = "label_unrank"
    /\ Len(run.jobs) = 0
    /\ run' = [pc |-> "returned", jobs |-> <<>>]
    /\ LET returns(u) == tree' = u.val
       IN  returns(unrank_returns(arg.rank, arg.n).u)
    /\ UNCHANGED <<op, arg, raised, decoded, ret, count, pending, done, history, back, out, code, calls>>

\* tree.rank() is called on the tree unrank returned
RankStart ==
    /\ op = "RankTree.unrank"
    /\ run.pc = "returned"
    /\ run' = [pc |-> "rank", jobs |-> <<tree>>]
    /\ UNCHANGED <<op, arg, NotRun>>

\* one call of shape_rank() and label_rank() on a node: stored ranks are
\* returned, ranks that are missing are computed from those of the children
RankCall ==
    /\ op = "RankTree.unrank"
    /\ run.pc = "rank"
    /\ Len(run.jobs) > 0
    /\ run' = IF /\ Head(run.jobs)._shape_rank # None
                 /\ Head(run.jobs)._label_rank # None
              THEN [run EXCEPT !.jobs = Tail(run.jobs)]
              ELSE [run EXCEPT !.jobs = Head(run.jobs).children \o Tail(run.jobs)]
    /\ UNCHANGED <<op, arg, NotRun>>

\* rank() returns
RankReturn ==
    /\ op = "RankTree.unrank"
    /\ run.pc = "rank"
    /\ Len(run.jobs) = 0
    /\ run' = [pc |-> "ranked", jobs |-> <<>>]
    /\ ret' = RankTree_rank(tree)
    /\ tree' = after_rank(tree)
    /\ UNCHANGED <<op, arg, raised, decoded, count, pending, done, history, back, out, code, calls>>

NextRun ==
    \/ RuleAscStart
    \/ RuleAscOuter
    \/ RuleAscInner
    \/ WithReplacementUnrankStart
    \/ WithReplacementUnrankWhile
    \/ WithReplacementUnrankRest
    \/ UnrankStart
    \/ ShapeUnrankCall
    \/ ShapeUnrankReturn
    \/ LabelUnrankCall
    \/ LabelUnrankReturn
    \/ RankStart
    \/ RankCall
    \/ RankReturn

\* one thread runs the call: it takes a step whenever it can
SpecRun == Init /\ [][NextRun]_vars /\ WF_vars(NextRun)

\* a < b for two Python lists of integers (tuple and list comparison)
RECURSIVE list_lt(_, _)
list_lt(a, b) ==
    IF Len(b) = 0 THEN FALSE
    ELSE IF Len(a) = 0 THEN TRUE
    ELSE IF Head(a) # Head(b) THEN Head(a) < Head(b)
    ELSE list_lt(Tail(a), Tail(b))

StrictlyIncreasing(s) == \A i \in 1..(Len(s) - 1) : s[i] < s[i + 1]

NonDecreasing(s) == \A i \in 1..(Len(s) - 1) : s[i] <= s[i + 1]

\* C11: Combination codec inverse: for 0 <= k <= n and r in [0, comb(n, k)),
\* Combination.unrank(r, universe, k) returns a strictly increasing k-subset
\* of the universe whose Combination.rank is r; for n >= 1, k >= 0 and r in
\* [0, comb_with_replacement(n, k)), with_replacement_unrank(r, n, k) returns
\* a non-decreasing list of k values in [0, n) whose with_replacement_rank is
\* r; in both codecs every smaller rank decodes to a lexicographically
\* smaller list.
C11_CodecInverse ==
    /\ (/\ op = "Combination.unrank"
        /\ arg.k <= Len(arg.elements)
        /\ arg.rank < comb(Len(arg.elements), arg.k)) =>
           /\ ~raised
           /\ Len(out) = arg.k
           /\ StrictlyIncreasing(out)
           /\ Range(out) \subseteq Range(arg.elements)
           /\ code # None => code = arg.rank
           /\ \A r \in 0..(arg.rank - 1) :
                 list_lt(Combination_unrank(r, arg.elements, arg.k).val, out)
    /\ (/\ op = "Combination.with_replacement_unrank"
        /\ arg.rank < comb_with_replacement(arg.n, arg.k)) =>
           /\ Len(out) = arg.k
           /\ NonDecreasing(out)
           /\ \A i \in 1..Len(out) : out[i] >= 0 /\ out[i] < arg.n
           /\ code # None => code = arg.rank
           /\ \A r \in 0..(arg.rank - 1) :
                 list_lt(with_replacement_unrank(r, arg.n, arg.k), out)

\* the last 2-subset of a universe of four elements that are not their own
\* indices, ranked back
C11_Witness ==
    /\ op = "Combination.unrank"
    /\ arg.elements = <<3, 5, 7, 9>> /\ arg.k = 2 /\ arg.rank = 5
    /\ out = <<7, 9>> /\ code = 5

\* C12 as stated: Combination.unrank(r, elements, k) with
\* r >= comb(len(elements), k) and with_replacement_unrank(r, n, k) with
\* r >= comb_with_replacement(n, k) fail with the out-of-bounds error and
\* return no list, for every k >= 0.
C12_UnrankersRejectOutOfRange ==
    /\ (/\ op = "Combination.unrank"
        /\ arg.rank >= comb(Len(arg.elements), arg.k)) => raised
    /\ (/\ op = "Combination.with_replacement_unrank"
        /\ arg.rank >= comb_with_replacement(arg.n, arg.k)) => raised

\* every value the call has returned so far is the rank stored on the tree t
ReturnsStored(call, t) ==
    \A j \in 1..Len(call.returns) :
        /\ call.returns[j][2] # None
        /\ call.returns[j][1] = "shape_rank" => call.returns[j][2] = t._shape_rank
        /\ call.returns[j][1] = "label_rank" => call.returns[j][2] = t._label_rank

\* a step leaves a stored rank as it is
StoredRanksKept ==
    /\ tree._shape_rank # None => tree'._shape_rank = tree._shape_rank
    /\ tree._label_rank # None => tree'._label_rank = tree._label_rank

\* C13: under every interleaving of shape_rank(), label_rank() and rank()
\* calls on one tree, each a check of the stored rank, a computation and a
\* store, a stored _shape_rank or _label_rank is never replaced by a different
\* value, and every call returns the stored value.
C13_MemoStable ==
    [][StoredRanksKept /\ \A i \in 1..Len(calls') : ReturnsStored(calls'[i], tree')]_vars

\* two rank() calls both found the label rank missing, both computed it and
\* stored it one after the other
C13_Witness ==
    /\ op = "calls"
    /\ Len(calls) = 2
    /\ tree.num_leaves = 3
    /\ tree._label_rank # None /\ tree._label_rank > 0
    /\ calls[1].method = "rank" /\ calls[1].todo = <<>>
    /\ calls[1].returns = <<<<"shape_rank", tree._shape_rank>>, <<"shape_rank", tree._shape_rank>>, <<"label_rank", tree._label_rank>>>>
    /\ calls[2].method = "rank" /\ calls[2].todo = <<"return_label">>
    /\ Len(calls[2].returns) = 2

\* some node of t (a RankTree or a tskit node) has exactly one child
RECURSIVE has_unary_node(_)
has_unary_node(t) ==
    \/ Len(t.children) = 1
    \/ \E i \in 1..Len(t.children) : has_unary_node(t.children[i])

\* C14 as stated: from_tsk_tree on a source tree with a unary internal node
\* raises, and no tree the program holds has an internal node with exactly
\* one child.
C14_NoUnaryNodes ==
    /\ (/\ op = "from_tsk_tree"
        /\ arg.tsk.num_roots = 1
        /\ has_unary_node(arg.tsk.root)) => raised
    /\ HasTree => ~has_unary_node(tree)

\* the ids of the leaves below the tskit node u
RECURSIVE leaf_ids(_)
leaf_ids(u) ==
    IF Len(u.children) = 0 THEN {u.id}
    ELSE UNION {leaf_ids(u.children[i]) : i \in 1..Len(u.children)}

\* the labels of the leaves of the RankTree t
RECURSIVE leaf_labels(_)
leaf_labels(t) ==
    IF Len(t.children) = 0 THEN {t.labels[1]}
    ELSE UNION {leaf_labels(t.children[i]) : i \in 1..Len(t.children)}

\* C15: from_tsk_tree raises ValueError when the source tree has zero roots
\* or two or more, and builds no tree; with exactly one root it returns a
\* tree whose leaf labels are exactly the ids of the leaves of the source.
C15_ImportRootCheck ==
    op = "from_tsk_tree" =>
        /\ arg.tsk.num_roots # 1 => raised /\ tree = NoTree
        /\ arg.tsk.num_roots = 1 =>
              /\ ~raised
              /\ leaf_labels(tree) = leaf_ids(arg.tsk.root)
              /\ Range(tree.labels) = leaf_ids(arg.tsk.root)
              /\ Len(tree.labels) = Cardinality(leaf_ids(arg.tsk.root))

\* a source tree without a root was refused
C15_Witness ==
    /\ op = "from_tsk_tree"
    /\ arg.tsk.num_roots = 0
    /\ raised
    /\ tree = NoTree

\* the non-decreasing lists of integers >= least that sum to n
RECURSIVE AscendingParts(_, _)
AscendingParts(n, least) ==
    {<<n>>} \cup
    UNION {{<<f>> \o r : r \in AscendingParts(n - f, f)} : f \in least..(n \div 2)}

\* C16: for n >= 2 partitions(n) yields every partition of n with at least
\* two parts exactly once, as a non-decreasing list of positive integers
\* summing to n, never [n]; takewhile drops only the final [n] of rule_asc(n);
\* partitions(0) and partitions(1) yield nothing; the lists come in ascending
\* lexicographic order, and every call yields the same sequence.
C16_Partitions ==
    op = "partitions" =>
        /\ arg.n <= 1 => out = <<>>
        /\ arg.n >= 2 =>
              /\ Range(out) = AscendingParts(arg.n, 1) \ {<<arg.n>>}
              /\ Len(out) = Cardinality(Range(out))
              /\ \A i \in 1..Len(out) :
                    /\ Len(out[i]) >= 2
                    /\ NonDecreasing(out[i])
                    /\ \A j \in 1..Len(out[i]) : out[i][j] >= 1
                    /\ SumSeq(out[i]) = arg.n
                    /\ out[i] # <<arg.n>>
              /\ \A i \in 1..(Len(out) - 1) : list_lt(out[i], out[i + 1])
              /\ rule_asc(arg.n) = out \o <<<<arg.n>>>>
        /\ \A c \in 1..Len(history) : history[c] = out

\* partitions(5) was generated twice
C16_Witness ==
    /\ op = "partitions"
    /\ arg.n = 5
    /\ out = <<<<1, 1, 1, 1, 1>>, <<1, 1, 1, 2>>, <<1, 1, 3>>, <<1, 2, 2>>, <<1, 4>>, <<2, 3>>>>
    /\ history = <<out>>

\* num_leaves and labels of every node of t are those of its subtree
RECURSIVE derived_attributes_hold(_)
derived_attributes_hold(t) ==
    /\ IF Len(t.children) = 0 THEN t.num_leaves = 1
       ELSE /\ t.num_leaves = SumSeq(list([i \in 1..Len(t.children) |-> t.children[i].num_leaves]))
            /\ \A i \in 1..Len(t.children) : derived_attributes_hold(t.children[i])
    /\ StrictlyIncreasing(t.labels)
    /\ Len(t.labels) = t.num_leaves
    /\ Range(t.labels) = leaf_labels(t)

\* C17: in every tree produced by unrank, all_labellings, all_labelled_trees
\* or import, a leaf has num_leaves 1, an internal node the sum of its
\* children's num_leaves, and every node's labels list is strictly increasing,
\* of length num_leaves and holds the leaf labels of its subtree; for unrank
\* and the enumerators the root's labels are 0..n-1.
C17_DerivedAttributes ==
    /\ (op \in {"unrank", "from_tsk_tree", "all_labellings", "all_labelled_trees"} /\ HasTree) =>
          derived_attributes_hold(tree)
    /\ (op \in {"unrank", "all_labellings", "all_labelled_trees"} /\ HasTree) =>
          tree.labels = range(arg.n)
    /\ back.num_leaves > 0 =>
          derived_attributes_hold(back) /\ back.labels = range(back.num_leaves)

\* all_labelled_trees(4) yielded a tree with two cherries over the labels
\* 0, 3 and 1, 2
C17_Witness ==
    /\ op = "all_labelled_trees"
    /\ arg.n = 4
    /\ Len(tree.children) = 2
    /\ tree.children[1].labels = <<0, 3>>
    /\ tree.children[2].labels = <<1, 2>>
    /\ tree.labels = <<0, 1, 2, 3>>

\* the positions in the concatenation at which a group of groups ends
GroupEnds(groups) == {Len(Concat(SubSeq(groups, 1, i))) : i \in 1..Len(groups)}

\* the key group_children_by_shape compares
shape_key(c) == <<c.num_leaves, shape_rank(c)>>

\* shapes and sizes are contiguous groupings of children by shape_key and by
\* num_leaves, and shapes refines sizes
contiguous_groups(children, shapes, sizes) ==
    /\ \A i, j \in 1..Len(children) :
          (i < j /\ shape_key(children[i]) = shape_key(children[j])) =>
              \A m \in i..j : shape_key(children[m]) = shape_key(children[i])
    /\ Concat(shapes) = children
    /\ Concat(sizes) = children
    /\ \A g \in 1..Len(shapes) :
          /\ Len(shapes[g]) > 0
          /\ \A m \in 1..Len(shapes[g]) : shape_key(shapes[g][m]) = shape_key(shapes[g][1])
          /\ \A h \in 1..(g - 1) : shape_key(shapes[h][1]) # shape_key(shapes[g][1])
    /\ \A g \in 1..Len(sizes) :
          /\ Len(sizes[g]) > 0
          /\ \A m \in 1..Len(sizes[g]) : sizes[g][m].num_leaves = sizes[g][1].num_leaves
          /\ \A h \in 1..(g - 1) : sizes[h][1].num_leaves # sizes[g][1].num_leaves
    /\ GroupEnds(sizes) \subseteq GroupEnds(shapes)

RECURSIVE shape_groups_contiguous(_)
shape_groups_contiguous(t) ==
    /\ contiguous_groups(t.children, group_children_by_shape(t),
                         group_children_by_num_leaves(t))
    /\ \A i \in 1..Len(t.children) : shape_groups_contiguous(t.children[i])

\* C18: in every tree built by unrank, import or enumeration the children of
\* a node that share (num_leaves, shape_rank) are adjacent:
\* group_children_by_shape returns groups with pairwise distinct keys whose
\* concatenation is the children list, and every group of
\* group_children_by_num_leaves is a union of consecutive shape groups.
C18_ShapeGroupsContiguous ==
    /\ ((op \in {"unrank", "from_tsk_tree"} \/ op \in Generators) /\ HasTree) =>
          shape_groups_contiguous(tree)
    /\ back.num_leaves > 0 => shape_groups_contiguous(back)

\* all_unlabelled_trees(4) yielded the tree of two leaves and a cherry: two
\* groups by shape and by num_leaves
C18_Witness ==
    /\ op = "all_unlabelled_trees"
    /\ arg.n = 4
    /\ Len(tree.children) = 3
    /\ Len(group_children_by_shape(tree)) = 2
    /\ Len(group_children_by_shape(tree)[1]) = 2
    /\ Len(group_children_by_num_leaves(tree)) = 2

\* the ids of the objects in the children lists of t and of its descendants,
\* one entry per occurrence
RECURSIVE child_ids(_)
child_ids(t) ==
    list([i \in 1..Len(t.children) |-> t.children[i].id])
    \o Concat(list([i \in 1..Len(t.children) |-> child_ids(t.children[i])]))

\* the ids of the objects below t
descendant_ids(t) == Range(child_ids(t))

\* C19 as stated: over all the trees an enumerator yields no RankTree object
\* occurs twice as a child, under one parent or under two, and no node is
\* its own descendant.
C19_ExclusiveChildren ==
    op = "all_unlabelled_trees objects" =>
        /\ Len(Concat(list([j \in 1..Len(out) |-> child_ids(out[j])])))
             = Cardinality(Range(Concat(list([j \in 1..Len(out) |-> child_ids(out[j])]))))
        /\ \A j \in 1..Len(out) : out[j].id \notin descendant_ids(out[j])

RECURSIVE Factorial(_)
Factorial(n) == IF n = 0 THEN 1 ELSE n * Factorial(n - 1)

\* the multisets of k of the values 1..n, as non-decreasing lists
Multisets(n, k) == {m \in [1..k -> 1..n] : NonDecreasing(m)}

\* C20: for 0 <= k <= n Combination.comb(n, k) is n!/(k!(n-k)!), every
\* res //= i of its loop divides exactly, comb(n, k) = comb(n, n - k); for
\* n >= 1 and k >= 0 comb_with_replacement(n, k) = comb(n + k - 1, k), the
\* number of multisets of size k over n values.
C20_ExactBinomial ==
    /\ op = "Combination.comb" =>
          /\ count * Factorial(arg.k) * Factorial(arg.n - arg.k) = Factorial(arg.n)
          /\ Len(out) = Min(arg.k, arg.n - arg.k)
          /\ \A i \in 1..Len(out) : out[i] % i = 0
          /\ Len(out) > 0 => out[Len(out)] \div Len(out) = count
          /\ count = comb(arg.n, arg.n - arg.k)
    /\ op = "Combination.comb_with_replacement" =>
          /\ count = comb(arg.n + arg.k - 1, arg.k)
          /\ count = Cardinality(Multisets(arg.n, arg.k))

\* comb(8, 3) = 56 went through the products 6, 42 and 168
C20_Witness ==
    /\ op = "Combination.comb"
    /\ arg.n = 8 /\ arg.k = 3
    /\ out = <<6, 42, 168>>
    /\ count = 56

\* a call is in progress
Running == run.pc \notin {"idle", "returned", "raised", "exhausted", "ranked"}

\* C21: for n >= 1 and non-negative ranks, in range or not, unrank ends by
\* returning a tree or raising; the while loop of with_replacement_unrank and
\* the loops of rule_asc exit; rank() ends on every tree unrank returned.
C21_Terminates == Running ~> ~Running

\* with_replacement_unrank(4, 2, 2) returned after its while loop had passed
\* the end of the pool: the rank 4 is two past the last rank
C21_Witness ==
    /\ op = "with_replacement_unrank"
    /\ arg.rank = 4 /\ arg.n = 2 /\ arg.k = 2
    /\ run.pc = "returned"
    /\ run.result[1] > arg.n

\* the ranks stored on u and on the nodes below it are the ranks computed
\* from the structure and the labels alone
RECURSIVE stored_ranks_recomputed(_)
stored_ranks_recomputed(u) ==
    /\ u._shape_rank # None => u._shape_rank = compute_shape_rank(clear_memo(u))
    /\ u._label_rank # None => u._label_rank = compute_label_rank(clear_memo(u))
    /\ \A i \in 1..Len(u.children) : stored_ranks_recomputed(u.children[i])

\* C22: in the tree unrank((s, l), n) returns for ranks in range, the ranks
\* shape_unrank and label_unrank stored on every node equal what
\* compute_shape_rank() and compute_label_rank() return for the node from its
\* structure and labels alone, and rank() on the tree with every stored rank
\* cleared still returns (s, l).
C22_MemoAgrees ==
    /\ (op = "unrank" /\ ~raised /\ InRange(arg.n, arg.rank)) =>
          /\ stored_ranks_recomputed(tree)
          /\ arg.n >= 2 => <<tree._shape_rank, tree._label_rank>> = arg.rank
    /\ (op = "unrank, ranks cleared" /\ InRange(arg.n, arg.rank)) =>
          /\ ret = arg.rank
          /\ tree = after_rank(clear_memo(unrank(arg.rank, arg.n).val))

\* unrank((1, 1), 4) returned a tree; its stored ranks were cleared and rank()
\* computed (1, 1) again
C22_Witness ==
    /\ op = "unrank, ranks cleared"
    /\ arg.n = 4
    /\ arg.rank = <<1, 1>>
    /\ ret = <<1, 1>>
    /\ \E i \in 1..Len(tree.children) : ~is_leaf(tree.children[i])

=============================================================================
